---- MODULE Spec2Model ----
(***************************************************************************)
(* Market-data layer of ai-optimize-wealth-strategist: the per-provider    *)
(* rate limiter and TTL cache of MarketDataAgent, the provider fetch       *)
(* operations built on them, and MarketDataService's aggregation.          *)
(* Time is counted in whole seconds.                                       *)
(***************************************************************************)
EXTENDS Integers, Sequences, FiniteSets, TLC

VARIABLES
    now,                   \* the wall clock (time.time() / datetime.now())
    rate_limit,            \* agent -> self.rate_limit
    request_count,         \* agent -> self.request_count
    request_window_start,  \* agent -> self.request_window_start
    last_request_time,     \* agent -> self.last_request_time
    pc,                    \* caller -> position inside _rate_limit_check
    current_time,          \* caller -> local current_time of _rate_limit_check
    wake_at,               \* caller -> earliest time time.sleep() may return
    arrival,               \* caller -> agent state seen when the call arrived
    returns,               \* times at which _rate_limit_check returned (latest last)
    obs,                   \* what the latest returned _rate_limit_check did
    cache_duration,        \* agent -> self.cache_duration
    cache,                 \* agent -> self.cache, a dict from key to entry
    written,               \* agent -> key -> the latest _cache_set of that key
    got,                   \* what the latest _cache_get was asked and returned
    today,                 \* datetime.now().date(), as a day of January 2024
    api_key,               \* agent -> whether its API key is configured
    subject,               \* the provider instance whose operations are called
    fobs,                  \* what the latest provider operation was asked and did
    world,                 \* what the upstream services answer during the call
    agg                    \* the service's portfolio and its call in progress

vars == <<now, rate_limit, request_count, request_window_start, last_request_time,
          pc, current_time, wake_at, arrival, returns, obs,
          cache_duration, cache, written, got,
          today, api_key, subject, fobs,
          world, agg>>

agentVars == <<rate_limit, request_count, request_window_start, last_request_time>>
callerVars == <<pc, current_time, wake_at, arrival, returns, obs>>
cacheVars == <<cache_duration, cache, written, got>>
fetchVars == <<today, api_key, subject, fobs>>
aggVars == <<world, agg>>

\* what the rate limiter's steps leave alone, and what the cache's do
notRate == <<cacheVars, fetchVars, aggVars>>
notCache == <<agentVars, callerVars, fetchVars, aggVars>>

-----------------------------------------------------------------------------
(* Bounds of the model *)

MaxTime == 150
MaxRateLimit == 2
MaxCacheTime == 900
MaxFetchTime == 360
MaxAggTime == 400

(* Program constants *)

WINDOW == 60
CACHE_DURATION == 300
\* the default of self.rate_limit
RATE_LIMIT == 60
MinHistory == 20

Agents == {"YFINANCE", "POLYGON", "TECHNICAL_INDICATORS", "NEWSAPI", "FINNHUB", "FRED"}
Callers == {1, 2}
\* Python's None where a dict is expected, where a string is, and no agent at all
None == [none |-> TRUE]
Null == "<null>"
NoAgent == "-"

\* The clock advances in jumps of these sizes; sums of them hit the window
\* boundary exactly (25 + 35) and miss it on either side.
TickSteps == {25, 35}

\* The cache is watched on a coarser clock: half a default TTL, or a whole one.
CacheTickSteps == {150, 300}

\* MARKET_DATA_CACHE_DURATION: unset (300 s), or set to another number
CacheDurations == {0, 150, CACHE_DURATION}

-----------------------------------------------------------------------------
(* MarketDataAgent.__init__ and _rate_limit_check, statement by statement *)

\* line 39: the window has passed
WindowPassed(ct, ws) == ct - ws >= WINDOW

\* the limit is passed
OverLimit(count, limit) == count > limit
\* line 44: the limit is reached
AtLimit(count, limit) == count >= limit

\* line 45: sleep_time = 60 - (current_time - self.request_window_start)
SleepTimeShort(ct, ws) == (WINDOW - (ct - ws)) - 25
SleepTime(ct, ws) == WINDOW - (ct - ws)

\* lines 48-49: the reset after the sleep
CountAfterSleep(count) == 0

\* line 36: a caller enters _rate_limit_check of agent a and reads the clock
Call(c, a) ==
    /\ pc[c] = "idle"
    /\ pc' = [pc EXCEPT ![c] = "L39"]
    /\ current_time' = [current_time EXCEPT ![c] = now]
    /\ arrival' = [arrival EXCEPT ![c] =
                     [agent |-> a, at |-> now,
                      count |-> request_count[a],
                      window_start |-> request_window_start[a],
                      slept |-> FALSE, woke |-> 0]]
    /\ UNCHANGED <<now, agentVars, wake_at, returns, obs, notRate>>

\* lines 39-41: reset the counter if the window has passed
L39(c) ==
    /\ pc[c] = "L39"
    /\ LET a == arrival[c].agent IN
       IF WindowPassed(current_time[c], request_window_start[a])
       THEN /\ request_count' = [request_count EXCEPT ![a] = 0]
            /\ request_window_start' =
                 [request_window_start EXCEPT ![a] = current_time[c]]
       ELSE UNCHANGED <<request_count, request_window_start>>
    /\ pc' = [pc EXCEPT ![c] = "L44"]
    /\ UNCHANGED <<now, rate_limit, last_request_time, current_time, wake_at,
                   arrival, returns, obs, notRate>>

\* lines 44-47: at the limit, sleep until the window ends
L44(c) ==
    /\ pc[c] = "L44"
    /\ LET a == arrival[c].agent
           sleep_time == SleepTime(current_time[c], request_window_start[a])
       IN  IF AtLimit(request_count[a], rate_limit[a]) /\ sleep_time > 0
           THEN /\ pc' = [pc EXCEPT ![c] = "L47"]
                /\ wake_at' = [wake_at EXCEPT ![c] = now + sleep_time]
                /\ arrival' = [arrival EXCEPT ![c].slept = TRUE]
           ELSE /\ pc' = [pc EXCEPT ![c] = "L51"]
                /\ UNCHANGED <<wake_at, arrival>>
    /\ UNCHANGED <<now, agentVars, current_time, returns, obs, notRate>>

\* lines 47-49: time.sleep returns no earlier than asked; the window is reset
L47(c) ==
    /\ pc[c] = "L47"
    /\ now >= wake_at[c]
    /\ LET a == arrival[c].agent IN
       /\ request_count' =
            [request_count EXCEPT ![a] = CountAfterSleep(request_count[a])]
       /\ request_window_start' = [request_window_start EXCEPT ![a] = now]
    /\ arrival' = [arrival EXCEPT ![c].woke = now]
    /\ pc' = [pc EXCEPT ![c] = "L51"]
    /\ UNCHANGED <<now, rate_limit, last_request_time, current_time, wake_at,
                   returns, obs, notRate>>

\* the latest rate_limit + 1 return times are what the sliding window needs
Latest(s, n) == IF Len(s) > n THEN SubSeq(s, Len(s) - n + 1, Len(s)) ELSE s

\* lines 51-52: count the request and return
L51(c) ==
    /\ pc[c] = "L51"
    /\ LET a == arrival[c].agent IN
       /\ request_count' = [request_count EXCEPT ![a] = request_count[a] + 1]
       /\ last_request_time' = [last_request_time EXCEPT ![a] = current_time[c]]
       /\ returns' = Latest(Append(returns, now), rate_limit[a] + 1)
       /\ obs' = [arrival[c] EXCEPT
                     !.agent = a] @@
                 [returned |-> now,
                  count_after |-> request_count[a] + 1,
                  window_start_after |-> request_window_start[a]]
    /\ pc' = [pc EXCEPT ![c] = "idle"]
    /\ UNCHANGED <<now, rate_limit, request_window_start, current_time, wake_at,
                   arrival, notRate>>

\* The clock moves while every caller is outside the check or asleep in it:
\* the statements of the check take no time.
Tick ==
    /\ \A c \in Callers : pc[c] \in {"idle", "L47"}
    /\ \E d \in TickSteps :
         /\ now + d <= MaxTime
         /\ now' = now + d
    /\ UNCHANGED <<agentVars, callerVars, notRate>>

-----------------------------------------------------------------------------
(* MarketDataAgent._cache_get and _cache_set *)

\* datetime.isoformat(), its time of day: HH:MM:SS with every field padded to
\* two digits, as the sequence of its digits.
TwoDigits(n) == <<n \div 10, n % 10>>
OneOrTwoDigits(n) == IF n < 10 THEN <<n>> ELSE <<n \div 10, n % 10>>

IsoFormatUnpadded(t) ==
    OneOrTwoDigits(t \div 3600) \o OneOrTwoDigits((t \div 60) % 60)
        \o OneOrTwoDigits(t % 60)
IsoFormat(t) ==
    TwoDigits(t \div 3600) \o TwoDigits((t \div 60) % 60) \o TwoDigits(t % 60)

\* Python's < on two strings: the first differing character decides, and a
\* proper prefix is the smaller one.
RECURSIVE StrLess(_, _)
StrLess(s, t) ==
    IF t = <<>> THEN FALSE
    ELSE IF s = <<>> THEN TRUE
    ELSE IF Head(s) # Head(t) THEN Head(s) < Head(t)
    ELSE StrLess(Tail(s), Tail(t))

\* every entry is taken for expired
CacheGetExpired(c, key, t) == None

\* lines 54-60: the entry's data while now < expires_at, else None
CacheGet(c, key, t) ==
    IF key \in DOMAIN c /\ StrLess(IsoFormat(t), c[key].expires_at)
    THEN c[key].data
    ELSE None

\* lines 62-69: the entry expires cache_duration seconds from now
CacheSet(c, key, data, t, duration) ==
    [k \in DOMAIN c \cup {key} |->
        IF k = key
        THEN [data |-> data,
              expires_at |-> IsoFormat(t + duration),
              cached_at |-> IsoFormat(t)]
        ELSE c[k]]

-----------------------------------------------------------------------------
(* Python values: a dict is a record, a JSON list inside a body is a sequence,
   a body that is itself a list is wrapped as [list |-> <<...>>] *)

EmptyDict == [k \in {} |-> ""]
HasKey(d, k) == k \in DOMAIN d
Get(d, k, default) == IF k \in DOMAIN d THEN d[k] ELSE default

\* `if cached_data:` -- neither None nor an empty dict
NeverTruthy(d) == FALSE
Truthy(d) == d # None /\ DOMAIN d # {}

\* `x or ""` for a string or None
OrEmpty(x) == IF x = Null THEN "" ELSE x

\* strftime("%Y-%m-%d") of the day `d` days into January 2024 (1 January 2024
\* is a Monday); the days before it are December 2023's
TwoDigitStr(n) == IF n < 10 THEN "0" \o ToString(n) ELSE ToString(n)
DateStr(d) == IF d >= 1 THEN "2024-01-" \o TwoDigitStr(d)
              ELSE "2023-12-" \o TwoDigitStr(31 + d)

\* a date argument left at its default (None), as an f-string prints it
NoDate == "None"

-----------------------------------------------------------------------------
(* MarketDataAgent._rate_limit_check, _cache_set and _make_request as one
   caller runs them, start to end *)

\* what one agent's methods read and write, and what the call did so far:
\* `trace` lists its rate-limit checks and outbound calls in the order made,
\* `excepted` the keys of the fetches that ended in their `except Exception`
AgentState(a) ==
    [now |-> now,
     request_count |-> request_count[a],
     request_window_start |-> request_window_start[a],
     last_request_time |-> last_request_time[a],
     cache |-> cache[a],
     written |-> written[a],
     requests |-> <<>>,
     hits |-> <<>>,
     trace |-> <<>>,
     excepted |-> <<>>]

\* `if not self.api_key:`
KeyCheckSkipped(cfg) == FALSE
NotConfigured(cfg) == ~cfg.api_key

Config(a) ==
    [rate_limit |-> rate_limit[a],
     cache_duration |-> cache_duration[a],
     api_key |-> api_key[a]]

\* lines 38-41: a new window once the old one has passed
ResetWindow(s) ==
    IF WindowPassed(s.now, s.request_window_start)
    THEN [s EXCEPT !.request_count = 0, !.request_window_start = s.now]
    ELSE s

\* lines 43-52, entered at time ct; time.sleep returns after exactly the time
\* asked
Throttle(s, limit, ct) ==
    IF AtLimit(s.request_count, limit) /\ SleepTime(ct, s.request_window_start) > 0
    THEN [s EXCEPT !.now = ct + SleepTime(ct, s.request_window_start),
                   !.request_count = CountAfterSleep(@) + 1,
                   !.request_window_start = ct + SleepTime(ct, @),
                   !.last_request_time = ct,
                   !.trace = Append(@, "check")]
    ELSE [s EXCEPT !.request_count = @ + 1,
                   !.last_request_time = ct,
                   !.trace = Append(@, "check")]

\* lines 34-52
RateLimitCheck(s, limit) == Throttle(ResetWindow(s), limit, s.now)

\* the latest _cache_set of each key: when, what, and the request it answers
Written(w, key, t, data, params) ==
    [k \in DOMAIN w \cup {key} |->
        IF k = key THEN [at |-> t, data |-> data, params |-> params] ELSE w[k]]

\* self._cache_set(cache_key, data) inside a fetch for `params`
CacheStore(s, key, data, duration, params) ==
    [s EXCEPT !.cache = CacheSet(s.cache, key, data, s.now, duration),
              !.written = Written(s.written, key, s.now, data, params)]

\* `return cached_data`: the fetch is answered from the entry under `key`
CacheHit(s, key, params) ==
    [s EXCEPT !.hits = Append(@, [key |-> key, stored |-> s.written[key].params,
                                  asked |-> params])]

\* `except Exception as e: print(...); return {"error": str(e)}`: the fetch for
\* `key` leaves without a _cache_set
Excepted(s, key) == [s EXCEPT !.excepted = Append(@, key)]

\* lines 71-81: the rate-limit check, then one GET.  The response is a
\* RequestException (connection error, timeout, non-2xx status: raise_for_status),
\* another exception (a body that is not JSON, where the installed requests
\* raises a plain ValueError for it), or the decoded JSON body.
MakeRequest(s, cfg, request, resp) ==
    LET s1 == RateLimitCheck(s, cfg.rate_limit) IN
    [s |-> [s1 EXCEPT !.requests = Append(@, request), !.trace = Append(@, "call")],
     raised |-> resp.kind = "Exception",
     data |-> IF resp.kind = "json" THEN resp.body ELSE [error |-> resp.kind]]

RequestFailed == [kind |-> "RequestException"]
RequestRaised == [kind |-> "Exception"]
Json(body) == [kind |-> "json", body |-> body]

-----------------------------------------------------------------------------
(* `keyword in text.lower()` for the texts the providers' articles give and the
   keywords of the program's lists: the pairs <<text, keyword>> for which it is
   true, as Python's str.lower and `in` compute it *)

LowerContains ==
    {<<"Apple and Microsoft rally Both gain", "apple">>,
     <<"Apple and Microsoft rally Both gain", "gain">>,
     <<"Apple and Microsoft rally Both gain", "microsoft">>,
     <<"Apple and Microsoft rally Both gain", "rally">>,
     <<"Apple and Microsoft rally Both gain Windows and Mac sales", "apple">>,
     <<"Apple and Microsoft rally Both gain Windows and Mac sales", "gain">>,
     <<"Apple and Microsoft rally Both gain Windows and Mac sales", "mac">>,
     <<"Apple and Microsoft rally Both gain Windows and Mac sales", "microsoft">>,
     <<"Apple and Microsoft rally Both gain Windows and Mac sales", "rally">>,
     <<"Apple and Microsoft rally Both gain Windows and Mac sales", "win">>,
     <<"Apple and Microsoft rally Both gain Windows and Mac sales", "windows">>,
     <<"Apple iPad event announced New models", "apple">>,
     <<"Apple iPad event announced New models", "ipad">>,
     <<"Apple iPad event announced New models Apple showed its iPad", "apple">>,
     <<"Apple iPad event announced New models Apple showed its iPad", "ipad">>,
     <<"Apple shares surge on strong iPhone growth Profit beat lifts Apple", "apple">>,
     <<"Apple shares surge on strong iPhone growth Profit beat lifts Apple", "beat">>,
     <<"Apple shares surge on strong iPhone growth Profit beat lifts Apple", "growth">>,
     <<"Apple shares surge on strong iPhone growth Profit beat lifts Apple", "iphone">>,
     <<"Apple shares surge on strong iPhone growth Profit beat lifts Apple", "profit">>,
     <<"Apple shares surge on strong iPhone growth Profit beat lifts Apple", "strong">>,
     <<"Apple shares surge on strong iPhone growth Profit beat lifts Apple", "surge">>,
     <<"Apple shares surge on strong iPhone growth Profit beat lifts Apple Apple reported record earnings", "apple">>,
     <<"Apple shares surge on strong iPhone growth Profit beat lifts Apple Apple reported record earnings", "beat">>,
     <<"Apple shares surge on strong iPhone growth Profit beat lifts Apple Apple reported record earnings", "earnings">>,
     <<"Apple shares surge on strong iPhone growth Profit beat lifts Apple Apple reported record earnings", "growth">>,
     <<"Apple shares surge on strong iPhone growth Profit beat lifts Apple Apple reported record earnings", "iphone">>,
     <<"Apple shares surge on strong iPhone growth Profit beat lifts Apple Apple reported record earnings", "profit">>,
     <<"Apple shares surge on strong iPhone growth Profit beat lifts Apple Apple reported record earnings", "strong">>,
     <<"Apple shares surge on strong iPhone growth Profit beat lifts Apple Apple reported record earnings", "surge">>,
     <<"Apple wins positive ruling Shares higher", "apple">>,
     <<"Apple wins positive ruling Shares higher", "higher">>,
     <<"Apple wins positive ruling Shares higher", "positive">>,
     <<"Apple wins positive ruling Shares higher", "win">>,
     <<"Chipmaker machines in demand Orders rise", "mac">>,
     <<"Chipmaker machines in demand Orders rise", "rise">>,
     <<"Chipmaker machines in demand Orders rise ", "mac">>,
     <<"Chipmaker machines in demand Orders rise ", "rise">>,
     <<"Markets fall on fear Stocks drop", "drop">>,
     <<"Markets fall on fear Stocks drop", "fall">>,
     <<"Markets fall on fear Stocks drop", "fear">>,
     <<"Markets fall on fear Stocks drop A weak session", "drop">>,
     <<"Markets fall on fear Stocks drop A weak session", "fall">>,
     <<"Markets fall on fear Stocks drop A weak session", "fear">>,
     <<"Markets fall on fear Stocks drop A weak session", "weak">>,
     <<"Microsoft Azure outage raises concern ", "azure">>,
     <<"Microsoft Azure outage raises concern ", "concern">>,
     <<"Microsoft Azure outage raises concern ", "microsoft">>,
     <<"Microsoft Xbox showcase dated Schedule set", "microsoft">>,
     <<"Microsoft Xbox showcase dated Schedule set", "xbox">>,
     <<"Microsoft Xbox showcase dated Schedule set Xbox titles shown", "microsoft">>,
     <<"Microsoft Xbox showcase dated Schedule set Xbox titles shown", "xbox">>,
     <<"Microsoft lower after weak outlook Investors worry", "lower">>,
     <<"Microsoft lower after weak outlook Investors worry", "microsoft">>,
     <<"Microsoft lower after weak outlook Investors worry", "weak">>,
     <<"Microsoft lower after weak outlook Investors worry", "worry">>,
     <<"XLK tech fund in focus Sector ETF", "xlk">>,
     <<"XLK tech fund in focus Sector ETF The XLK fund", "xlk">>}

-----------------------------------------------------------------------------
(* NewsAPIUSAgent *)

NewsPositiveWords ==
    <<"surge", "jump", "rise", "gain", "up", "positive", "growth", "profit",
      "earnings", "beat", "exceed", "strong", "bullish", "rally", "recovery">>
NewsNegativeWords ==
    <<"fall", "drop", "decline", "loss", "down", "negative", "weak", "bearish",
      "crash", "plunge", "concern", "risk", "worry", "fear", "sell-off">>

\* sum(1 for word in words if word in text_lower)
CountFound(words, text) ==
    Cardinality({i \in 1..Len(words) : <<text, words[i]>> \in LowerContains})

Sentiment(positive_words, negative_words, text) ==
    IF text = "" THEN "neutral"
    ELSE LET positive_count == CountFound(positive_words, text)
             negative_count == CountFound(negative_words, text)
         IN  IF positive_count > negative_count THEN "positive"
             ELSE IF negative_count > positive_count THEN "negative"
             ELSE "neutral"

NewsAnalyzeSentiment(text) == Sentiment(NewsPositiveWords, NewsNegativeWords, text)

\* _calculate_sentiment_summary; the *_percent floats, which nothing in this
\* layer reads, are left out
SentimentSummary(articles) ==
    LET n(v) == Cardinality({i \in 1..Len(articles) :
                               Get(articles[i], "sentiment", "neutral") = v})
    IN  IF articles = <<>>
        THEN [positive |-> 0, negative |-> 0, neutral |-> 0, overall |-> "neutral"]
        ELSE [positive |-> n("positive"), negative |-> n("negative"),
              neutral |-> n("neutral"),
              overall |-> IF n("positive") > n("negative") THEN "positive"
                          ELSE IF n("negative") > n("positive") THEN "negative"
                          ELSE "neutral"]

\* article.get("source", {}).get("name", "") on a null source
NewsProcessRaises(article) == Get(article, "source", EmptyDict) = None

NewsProcess(article) ==
    [title |-> Get(article, "title", ""),
     description |-> Get(article, "description", ""),
     url |-> Get(article, "url", ""),
     published_at |-> Get(article, "publishedAt", ""),
     source |-> Get(Get(article, "source", EmptyDict), "name", ""),
     content |-> Get(article, "content", ""),
     sentiment |-> NewsAnalyzeSentiment(OrEmpty(Get(article, "title", "")) \o " "
                                        \o OrEmpty(Get(article, "description", "")))]

SearchNews(s, cfg, day, query, page_size, from_date, to_date, resp) ==
    LET params == [query |-> query, page_size |-> page_size,
                   from_date |-> from_date, to_date |-> to_date]
        cache_key == "newsapi_us_search_" \o query \o "_" \o ToString(page_size)
                     \o "_" \o from_date \o "_" \o to_date
        cached_data == CacheGet(s.cache, cache_key, s.now)
        request == [url |-> "newsapi.org/v2/everything", q |-> query,
                    from |-> IF from_date = NoDate THEN DateStr(day - 7) ELSE from_date,
                    to |-> IF to_date = NoDate THEN DateStr(day) ELSE to_date,
                    pageSize |-> page_size]
        r == MakeRequest(s, cfg, request, resp)
        data == r.data
        search_data ==
            IF HasKey(data, "articles")
            THEN [query |-> query,
                  total_results |-> Get(data, "totalResults", 0),
                  articles |-> [i \in 1..Len(data.articles) |-> NewsProcess(data.articles[i])],
                  sentiment_summary |->
                      SentimentSummary([i \in 1..Len(data.articles) |->
                                           NewsProcess(data.articles[i])]),
                  last_updated |-> IsoFormat(r.s.now)]
            ELSE [error |-> "No search results available"]
    IN  [key |-> cache_key] @@
        IF NotConfigured(cfg)
        THEN [s |-> s, result |-> [error |-> "NewsAPI US key not configured"]]
        ELSE IF Truthy(cached_data)
        THEN [s |-> CacheHit(s, cache_key, params), result |-> cached_data]
        ELSE IF r.raised
        THEN [s |-> Excepted(r.s, cache_key), result |-> [error |-> "Exception"]]
        ELSE IF HasKey(data, "articles")
                /\ \E i \in 1..Len(data.articles) : NewsProcessRaises(data.articles[i])
        THEN [s |-> Excepted(r.s, cache_key), result |-> [error |-> "AttributeError"]]
        ELSE [s |-> CacheStore(r.s, cache_key, search_data, cfg.cache_duration, params),
              result |-> search_data]

-----------------------------------------------------------------------------
(* FinnhubAgent *)

FinnhubPositiveWords ==
    <<"surge", "jump", "rise", "gain", "up", "positive", "growth", "profit",
      "earnings", "beat", "exceed", "strong", "bullish", "rally", "recovery",
      "positive", "increase", "higher", "better", "success", "win">>
FinnhubNegativeWords ==
    <<"fall", "drop", "decline", "loss", "down", "negative", "weak", "bearish",
      "crash", "plunge", "concern", "risk", "worry", "fear", "sell-off",
      "negative", "decrease", "lower", "worse", "fail", "lose">>

FinnhubAnalyzeSentiment(text) ==
    Sentiment(FinnhubPositiveWords, FinnhubNegativeWords, text)

\* article.get("headline", "") + " " + article.get("summary", "") on a null field
FinnhubProcessRaises(article) ==
    Get(article, "headline", "") = Null \/ Get(article, "summary", "") = Null

\* datetime.fromtimestamp(n).isoformat(), kept symbolic
FromTimestamp(n) == "fromtimestamp(" \o ToString(n) \o ")"

FinnhubProcess(article) ==
    [id |-> Get(article, "id", 0),
     category |-> Get(article, "category", ""),
     datetime |-> Get(article, "datetime", 0),
     headline |-> Get(article, "headline", ""),
     summary |-> Get(article, "summary", ""),
     url |-> Get(article, "url", ""),
     source |-> Get(article, "source", ""),
     related |-> Get(article, "related", ""),
     image |-> Get(article, "image", ""),
     sentiment |-> FinnhubAnalyzeSentiment(Get(article, "headline", "") \o " "
                                           \o Get(article, "summary", "")),
     published_at |-> IF Get(article, "datetime", 0) # 0
                      THEN FromTimestamp(article.datetime) ELSE ""]

GetCompanyNews(s, cfg, day, symbol, from_date, to_date, resp) ==
    LET params == [symbol |-> symbol, from_date |-> from_date, to_date |-> to_date]
        cache_key == "finnhub_company_" \o symbol
        cached_data == CacheGet(s.cache, cache_key, s.now)
        request == [url |-> "finnhub.io/api/v1/company-news", symbol |-> symbol,
                    from |-> IF from_date = NoDate THEN DateStr(day - 7) ELSE from_date,
                    to |-> IF to_date = NoDate THEN DateStr(day) ELSE to_date]
        r == MakeRequest(s, cfg, request, resp)
        data == r.data
        articles == [i \in 1..Len(data.list) |-> FinnhubProcess(data.list[i])]
        company_news ==
            IF HasKey(data, "list")
            THEN [symbol |-> symbol,
                  total_results |-> Len(articles),
                  articles |-> articles,
                  sentiment_summary |-> SentimentSummary(articles),
                  last_updated |-> IsoFormat(r.s.now)]
            ELSE [error |-> "No company news available", symbol |-> symbol]
    IN  [key |-> cache_key] @@
        IF NotConfigured(cfg)
        THEN [s |-> s, result |-> [error |-> "Finnhub API key not configured",
                                   symbol |-> symbol]]
        ELSE IF Truthy(cached_data)
        THEN [s |-> CacheHit(s, cache_key, params), result |-> cached_data]
        ELSE IF r.raised
        THEN [s |-> Excepted(r.s, cache_key),
              result |-> [error |-> "Exception", symbol |-> symbol]]
        ELSE IF HasKey(data, "list")
                /\ \E i \in 1..Len(data.list) : FinnhubProcessRaises(data.list[i])
        THEN [s |-> Excepted(r.s, cache_key),
              result |-> [error |-> "TypeError", symbol |-> symbol]]
        ELSE [s |-> CacheStore(r.s, cache_key, company_news, cfg.cache_duration, params),
              result |-> company_news]

-----------------------------------------------------------------------------
(* PolygonAgent *)

\* _calculate_percentage_change; the quotes of the model give whole percentages
PercentageChange(old_price, new_price) ==
    IF old_price = 0 THEN 0 ELSE ((new_price - old_price) * 100) \div old_price

\* `"results" in quote_data and quote_data["results"]`
HasResults(quote_data) == HasKey(quote_data, "results") /\ quote_data.results # <<>>

PolygonGetStockData(s, cfg, symbol, quote_resp, basic_resp) ==
    LET params == [symbol |-> symbol]
        cache_key == "polygon_stock_" \o symbol
        cached_data == CacheGet(s.cache, cache_key, s.now)
        quote == MakeRequest(s, cfg,
                     [url |-> "api.polygon.io/v2/aggs/ticker/" \o symbol \o "/prev"],
                     quote_resp)
        result == quote.data.results[1]
        basic == MakeRequest(quote.s, cfg,
                     [url |-> "api.polygon.io/v1/meta/symbols/" \o symbol \o "/company"],
                     basic_resp)
        data ==
            IF HasResults(quote.data)
            THEN [symbol |-> symbol,
                  current_price |-> Get(result, "c", 0),
                  volume |-> Get(result, "v", 0),
                  high |-> Get(result, "h", 0),
                  low |-> Get(result, "l", 0),
                  open |-> Get(result, "o", 0),
                  price_change_1d |-> PercentageChange(Get(result, "o", 0),
                                                       Get(result, "c", 0)),
                  last_updated |-> IsoFormat(quote.s.now)]
            ELSE IF ~HasKey(basic.data, "error")
            THEN [symbol |-> symbol,
                  name |-> Get(basic.data, "name", symbol),
                  sector |-> Get(basic.data, "sector", "Unknown"),
                  industry |-> Get(basic.data, "industry", "Unknown"),
                  current_price |-> 0,
                  last_updated |-> IsoFormat(basic.s.now),
                  note |-> "Basic company info only - price data unavailable"]
            ELSE [error |-> "No data available", symbol |-> symbol]
    IN  [key |-> cache_key] @@
        IF NotConfigured(cfg)
        THEN [s |-> s, result |-> [error |-> "Polygon API key not configured",
                                   symbol |-> symbol]]
        ELSE IF Truthy(cached_data)
        THEN [s |-> CacheHit(s, cache_key, params), result |-> cached_data]
        ELSE IF quote.raised
        THEN [s |-> Excepted(quote.s, cache_key),
              result |-> [error |-> "Exception", symbol |-> symbol]]
        ELSE IF HasResults(quote.data)
        THEN [s |-> CacheStore(quote.s, cache_key, data, cfg.cache_duration, params),
              result |-> data]
        ELSE IF basic.raised
        THEN [s |-> Excepted(basic.s, cache_key),
              result |-> [error |-> "Exception", symbol |-> symbol]]
        ELSE [s |-> CacheStore(basic.s, cache_key, data, cfg.cache_duration, params),
              result |-> data]

-----------------------------------------------------------------------------
(* FREDAgent.  Observation values are in hundredths; "." is FRED's missing
   value. *)

Dot == [dot |-> TRUE]
Num(n) == [num |-> n]

FredSeries ==
    <<[name |-> "unemployment_rate", series_id |-> "UNRATE"],
      [name |-> "cpi", series_id |-> "CPIAUCSL"],
      [name |-> "core_cpi", series_id |-> "CPILFESL"],
      [name |-> "gdp", series_id |-> "GDP"],
      [name |-> "federal_funds_rate", series_id |-> "FEDFUNDS"],
      [name |-> "treasury_10y", series_id |-> "GS10"],
      [name |-> "pce_price_index", series_id |-> "PCEPI"],
      [name |-> "core_pce", series_id |-> "PCEPILFE"]>>

\* "Percent" if "RATE" in series_id else "Index" if "CPI" in series_id else ...
FredUnits(series_id) ==
    IF series_id = "UNRATE" THEN "Percent"
    ELSE IF series_id \in {"CPIAUCSL", "CPILFESL"} THEN "Index"
    ELSE IF series_id = "GDP" THEN "Billions of Dollars"
    ELSE "Percent"

\* float(x.get("value", 0)) if x.get("value") != "." else 0
FloatOf(observation) ==
    LET value == Get(observation, "value", Num(0)) IN
    IF value = Dot THEN 0 ELSE value.num

\* data["observations"][1] if there is one, else None, whose value counts as 0
PreviousValue(observations) ==
    IF Len(observations) > 1 THEN FloatOf(observations[2]) ELSE 0

\* lines 213-240 of _get_series: the series dict made from the answer
SeriesData(data, series_id, t) ==
    IF HasKey(data, "observations") /\ data.observations # <<>>
    THEN [series_id |-> series_id,
          value |-> FloatOf(data.observations[1]),
          previous_value |-> PreviousValue(data.observations),
          date |-> Get(data.observations[1], "date", ""),
          frequency |-> "Monthly",
          units |-> FredUnits(series_id),
          last_updated |-> IsoFormat(t)]
    ELSE [error |-> "No observations available for " \o series_id]

\* change and change_percent (in hundredths of a percent; the observations of
\* the model give whole ones)
WithChange(d) ==
    IF HasKey(d, "error") THEN d
    ELSE d @@ [change |-> IF d.previous_value # 0 THEN d.value - d.previous_value ELSE 0,
               change_percent |-> IF d.previous_value # 0
                                  THEN ((d.value - d.previous_value) * 10000)
                                           \div d.previous_value
                                  ELSE 0]

SeriesResult(r, series_id) ==
    [s |-> r.s,
     result |-> IF r.raised THEN [error |-> "Exception"]
                ELSE WithChange(SeriesData(r.data, series_id, r.s.now))]

\* _get_series; the requested year ends today (datetime.now())
GetSeries(s, cfg, day, series_id, resp) ==
    SeriesResult(MakeRequest(s, cfg,
                     [url |-> "api.stlouisfed.org/fred/series/observations",
                      series_id |-> series_id,
                      observation_start |-> "2023-01-" \o TwoDigitStr(day),
                      observation_end |-> DateStr(day),
                      frequency |-> IF series_id = "GDP" THEN "q" ELSE "m"],
                     resp),
                 series_id)

\* the eight _get_series calls, in the order of the dict literal
FredStep(g, acc) == [s |-> g.s, out |-> Append(acc.out, g.result)]

RECURSIVE FredRun(_, _, _, _, _)
FredRun(acc, cfg, day, resps, i) ==
    IF i > Len(FredSeries) THEN acc
    ELSE FredRun(FredStep(GetSeries(acc.s, cfg, day, FredSeries[i].series_id,
                                    resps[FredSeries[i].series_id]), acc),
                 cfg, day, resps, i + 1)

\* lines 43-58: the errors filtered out, the rest counted
ValidSeries(out) == {i \in 1..Len(FredSeries) : ~HasKey(out[i], "error")}

EconomicData(out, t) ==
    [indicators |-> [name \in {FredSeries[i].name : i \in ValidSeries(out)} |->
                        out[CHOOSE i \in 1..Len(FredSeries) : FredSeries[i].name = name]],
     total_indicators |-> Cardinality(ValidSeries(out)),
     error_count |-> Len(FredSeries) - Cardinality(ValidSeries(out)),
     last_updated |-> IsoFormat(t)]

EconomicStored(run, cache_key, cfg) ==
    [s |-> CacheStore(run.s, cache_key, EconomicData(run.out, run.s.now),
                      cfg.cache_duration, EmptyDict),
     result |-> EconomicData(run.out, run.s.now)]

GetEconomicIndicators(s, cfg, day, resps) ==
    LET params == EmptyDict
        cache_key == "fred_economic_indicators"
    IN  [key |-> cache_key] @@
        IF NotConfigured(cfg)
        THEN [s |-> s, result |-> [error |-> "FRED API key not configured"]]
        ELSE IF Truthy(CacheGet(s.cache, cache_key, s.now))
        THEN [s |-> CacheHit(s, cache_key, params),
              result |-> CacheGet(s.cache, cache_key, s.now)]
        ELSE EconomicStored(FredRun([s |-> s, out |-> <<>>], cfg, day, resps, 1),
                            cache_key, cfg)

-----------------------------------------------------------------------------
(* YFinanceAgent and TechnicalIndicatorsAgent: no API key, no rate-limit
   check; the yfinance library does the network calls.  A library call either
   raises or returns the ticker's info dict and price history. *)

\* Python's None where a number is expected
NoNum == -999999

\* `not x or x == 0` for a number or None
Falsy(x) == x = NoNum \/ x = 0

LibraryCall(s, request) ==
    [s EXCEPT !.requests = Append(@, request), !.trace = Append(@, "call")]

LibraryRaised == [kind |-> "Exception"]
Library(info, hist) == [kind |-> "ok", info |-> info, hist |-> hist]

\* the statement and multi-month return fields, which nothing in this layer
\* reads, are left out
YFinanceGetStockData(s, cfg, symbol, lib) ==
    LET params == [symbol |-> symbol]
        cache_key == "yfinance_stock_" \o symbol
        cached_data == CacheGet(s.cache, cache_key, s.now)
        s1 == LibraryCall(s, [url |-> "yfinance", symbol |-> symbol, period |-> "1mo"])
        info == lib.info
        hist == lib.hist
        p1 == Get(info, "currentPrice", NoNum)
        p2 == IF Falsy(p1) THEN Get(info, "regularMarketPrice", NoNum) ELSE p1
        p3 == IF Falsy(p2) THEN Get(info, "previousClose", NoNum) ELSE p2
        current_price == IF Falsy(p3) /\ hist # <<>> THEN hist[Len(hist)].Close ELSE p3
        v1 == Get(info, "volume", NoNum)
        volume == IF Falsy(v1) /\ hist # <<>> THEN hist[Len(hist)].Volume ELSE v1
        c1 == Get(info, "regularMarketChangePercent", NoNum)
        price_change_1d ==
            IF Falsy(c1) /\ Len(hist) >= 2
            THEN ((hist[Len(hist)].Close - hist[Len(hist) - 1].Close) * 100)
                     \div hist[Len(hist) - 1].Close
            ELSE c1
        data == [symbol |-> symbol,
                 name |-> Get(info, "longName", symbol),
                 sector |-> Get(info, "sector", "Unknown"),
                 industry |-> Get(info, "industry", "Unknown"),
                 market_cap |-> Get(info, "marketCap", NoNum),
                 pe_ratio |-> Get(info, "trailingPE", NoNum),
                 current_price |-> current_price,
                 volume |-> volume,
                 price_change_1d |-> price_change_1d,
                 last_updated |-> IsoFormat(s.now)]
    IN  [key |-> cache_key] @@
        IF Truthy(cached_data)
        THEN [s |-> CacheHit(s, cache_key, params), result |-> cached_data]
        ELSE IF lib.kind = "Exception"
        THEN [s |-> s1, result |-> [error |-> "Exception", symbol |-> symbol]]
        ELSE [s |-> CacheStore(s1, cache_key, data, cfg.cache_duration, params),
              result |-> data]

\* the indicators of a history of any length
TechnicalIndicatorsUntested(hist) == hist.indicators

\* _calculate_technical_indicators is pandas arithmetic on the history: its
\* values are the library's, hist.indicators; its length test is the program's
TechnicalIndicators(hist) ==
    IF hist.len < MinHistory THEN EmptyDict ELSE hist.indicators

TechnicalGetStockData(s, cfg, symbol, lib) ==
    LET params == [symbol |-> symbol]
        cache_key == "technical_indicators_" \o symbol
        cached_data == CacheGet(s.cache, cache_key, s.now)
        s1 == LibraryCall(s, [url |-> "yfinance", symbol |-> symbol, period |-> "1y"])
        data == [symbol |-> symbol] @@ TechnicalIndicators(lib.hist)
                @@ [last_updated |-> IsoFormat(s.now)]
    IN  [key |-> cache_key] @@
        IF Truthy(cached_data)
        THEN [s |-> CacheHit(s, cache_key, params), result |-> cached_data]
        ELSE IF lib.kind = "Exception"
        THEN [s |-> s1, result |-> [error |-> "Exception", symbol |-> symbol]]
        ELSE IF lib.hist.len = 0
        THEN [s |-> s1, result |-> [error |-> "No historical data available for "
                                              \o symbol,
                                    symbol |-> symbol]]
        ELSE [s |-> CacheStore(s1, cache_key, data, cfg.cache_duration, params),
              result |-> data]

\* get_stock_data for each symbol in turn; libs maps a symbol to its outcome
RECURSIVE PortfolioRun(_, _, _, _, _, _, _)
PortfolioRun(agent, s, cfg, symbols, libs, i, acc) ==
    IF i > Len(symbols) THEN [s |-> s, out |-> acc]
    ELSE LET g == IF agent = "YFINANCE"
                  THEN YFinanceGetStockData(s, cfg, symbols[i], libs[symbols[i]])
                  ELSE TechnicalGetStockData(s, cfg, symbols[i], libs[symbols[i]])
         IN  PortfolioRun(agent, g.s, cfg, symbols, libs, i + 1, Append(acc, g.result))

RECURSIVE SumOf(_)
SumOf(seq) == IF seq = <<>> THEN 0 ELSE seq[1] + SumOf(Tail(seq))

\* the keys of a dict filled by `for symbol in symbols`, in insertion order
RECURSIVE Distinct(_)
Distinct(seq) ==
    IF seq = <<>> THEN <<>>
    ELSE LET front == Distinct(SubSeq(seq, 1, Len(seq) - 1))
             last == seq[Len(seq)]
         IN  IF \E i \in 1..Len(front) : front[i] = last THEN front
             ELSE Append(front, last)

\* portfolio_data[symbol] holds the result of the symbol's last occurrence
PortfolioDict(symbols, out) ==
    [sym \in {symbols[i] : i \in 1..Len(symbols)} |->
        out[CHOOSE i \in 1..Len(symbols) :
               symbols[i] = sym /\ \A j \in (i + 1)..Len(symbols) : symbols[j] # sym]]

YFinanceSummary(symbols, portfolio) ==
    LET Priced(sym) == ~HasKey(portfolio[sym], "error")
                       /\ ~Falsy(Get(portfolio[sym], "current_price", NoNum))
        priced == SelectSeq(Distinct(symbols), Priced)
    IN  [total_symbols |-> Len(priced),
         symbols |-> priced,
         total_value |-> SumOf([i \in 1..Len(priced) |->
                                  portfolio[priced[i]].current_price])]

\* the average_rsi and average_macd floats, which nothing in this layer reads,
\* are left out
TechnicalSummary(portfolio, t) ==
    LET valid_data == {sym \in DOMAIN portfolio : ~HasKey(portfolio[sym], "error")} IN
    IF valid_data = {} THEN [error |-> "No valid technical data available"]
    ELSE [symbols_count |-> Cardinality(valid_data), last_updated |-> IsoFormat(t)]

GetPortfolioData(agent, s, cfg, symbols, libs) ==
    LET run == PortfolioRun(agent, s, cfg, symbols, libs, 1, <<>>)
        portfolio_data == PortfolioDict(symbols, run.out)
    IN  [s |-> run.s,
         result |-> [portfolio |-> portfolio_data,
                     summary |-> IF agent = "YFINANCE"
                                 THEN YFinanceSummary(symbols, portfolio_data)
                                 ELSE TechnicalSummary(portfolio_data, run.s.now),
                     last_updated |-> IsoFormat(run.s.now)]]

-----------------------------------------------------------------------------
(* MarketDataService.get_comprehensive_market_data: the date window and the
   six provider stages.  `acc` is what a stage's loop has built so far. *)

\* datetime.weekday(): Monday is 0
Weekday(day) == (day - 1) % 7
IsWeekend(day) == Weekday(day) >= 5
\* the day before, which is the last Friday on a Saturday only
DayBefore(day) == day - 1
LastFriday(day) == day - ((Weekday(day) - 4) % 7)
FromDate(day) ==
    IF IsWeekend(day) THEN DateStr(LastFriday(day) - 7) ELSE DateStr(day - 7)
ToDate(day) ==
    IF IsWeekend(day) THEN DateStr(LastFriday(day)) ELSE DateStr(day)
\* lines 76-90: what the call works out before the first stage
Window(day) ==
    [day |-> day, is_weekend |-> IsWeekend(day),
     from_date |-> FromDate(day), to_date |-> ToDate(day)]
\* f"{from_date} to {to_date}" if is_weekend else "Current week"
DateRange(call) ==
    IF call.is_weekend THEN call.from_date \o " to " \o call.to_date
    ELSE "Current week"

CompanyNames ==
    [AAPL |-> <<"Apple", "Apple Inc", "iPhone", "iPad", "Mac">>,
     MSFT |-> <<"Microsoft", "Microsoft Corporation", "Windows", "Office", "Azure">>,
     GOOGL |-> <<"Google", "Alphabet", "YouTube", "Android", "Chrome">>,
     TSLA |-> <<"Tesla", "Tesla Inc", "Elon Musk">>,
     NVDA |-> <<"NVIDIA", "NVIDIA Corporation", "GPU">>,
     AMZN |-> <<"Amazon", "Amazon.com", "AWS">>,
     META |-> <<"Meta", "Facebook", "Instagram", "WhatsApp">>,
     NFLX |-> <<"Netflix", "Netflix Inc">>,
     JPM |-> <<"JPMorgan", "JPMorgan Chase", "JP Morgan">>,
     JNJ |-> <<"Johnson & Johnson", "J&J">>]

\* company_names.get(symbol, [symbol])[:2]
FirstTwo(names) == SubSeq(names, 1, IF Len(names) < 2 THEN Len(names) ELSE 2)
SearchTerms(symbol) ==
    FirstTwo(IF symbol \in DOMAIN CompanyNames THEN CompanyNames[symbol] ELSE <<symbol>>)

\* the searches of the NewsAPI stage, in loop order
RECURSIVE SearchPairs(_)
SearchPairs(symbols) ==
    IF symbols = <<>> THEN <<>>
    ELSE [i \in 1..Len(SearchTerms(symbols[1])) |->
             [symbol |-> symbols[1], term |-> SearchTerms(symbols[1])[i]]]
         \o SearchPairs(Tail(symbols))

\* f"{article.get('title', '')}_{article.get('url', '')}" and
\* f"{article.get('id', '')}_{article.get('headline', '')}"
NewsArticleId(article) == Get(article, "title", "") \o "_" \o Get(article, "url", "")
FinnhubArticleId(article) ==
    (IF HasKey(article, "id") THEN ToString(article.id) ELSE "")
    \o "_" \o Get(article, "headline", "")

\* the membership test left out
EveryOneNew(ids, seen, i) == TRUE
\* `if article_id not in seen_articles`, for the i-th article of one result
IsNew(ids, seen, i) == ids[i] \notin seen /\ \A j \in 1..(i - 1) : ids[j] # ids[i]

\* article["related_ticker"] = symbol (and ["search_term"] = term) on the
\* articles not seen before; the dicts are the ones the provider's cache holds
Tagged(articles, ids, seen, tags) ==
    [i \in 1..Len(articles) |->
        IF IsNew(ids, seen, i) THEN tags @@ articles[i] ELSE articles[i]]

RECURSIVE NewOnes(_, _, _, _)
NewOnes(tagged, ids, seen, i) ==
    IF i > Len(tagged) THEN <<>>
    ELSE (IF IsNew(ids, seen, i) THEN <<tagged[i]>> ELSE <<>>)
         \o NewOnes(tagged, ids, seen, i + 1)

\* one pass of the loop body over a result that has articles
Collected(acc, s, key, articles, ids, tags) ==
    [errors |-> acc.errors,
     s |-> [s EXCEPT !.cache[key].data.articles = Tagged(articles, ids, acc.seen, tags)],
     ticker_news |-> acc.ticker_news
                     \o NewOnes(Tagged(articles, ids, acc.seen, tags), ids, acc.seen, 1),
     seen |-> acc.seen \cup {ids[i] : i \in 1..Len(ids)}]

NewsIds(articles) == [i \in 1..Len(articles) |-> NewsArticleId(articles[i])]
FinnhubIds(articles) == [i \in 1..Len(articles) |-> FinnhubArticleId(articles[i])]

\* `if "error" not in symbol_news and "articles" in symbol_news`
HasArticles(result) == ~HasKey(result, "error") /\ HasKey(result, "articles")

\* `errors` keeps, for each call of the stage, whether it returned an error
NewsCollect(acc, out, pair) ==
    [errors |-> Append(acc.errors, HasKey(out.result, "error"))] @@
    (IF HasArticles(out.result)
     THEN Collected(acc, out.s, out.key, out.result.articles,
                    NewsIds(out.result.articles),
                    [related_ticker |-> pair.symbol, search_term |-> pair.term])
     ELSE [acc EXCEPT !.s = out.s])

FinnhubCollect(acc, out, symbol) ==
    [errors |-> Append(acc.errors, HasKey(out.result, "error"))] @@
    (IF HasArticles(out.result)
     THEN Collected(acc, out.s, out.key, out.result.articles,
                    FinnhubIds(out.result.articles), [related_ticker |-> symbol])
     ELSE [acc EXCEPT !.s = out.s])

RECURSIVE NewsRun(_, _, _, _, _, _)
NewsRun(acc, cfg, call, pairs, resps, i) ==
    IF i > Len(pairs) THEN acc
    ELSE NewsRun(NewsCollect(acc,
                             SearchNews(acc.s, cfg, call.day, pairs[i].term, 6,
                                        call.from_date, call.to_date,
                                        resps[pairs[i].term]),
                             pairs[i]),
                 cfg, call, pairs, resps, i + 1)

RECURSIVE FinnhubRun(_, _, _, _, _, _)
FinnhubRun(acc, cfg, call, symbols, resps, i) ==
    IF i > Len(symbols) THEN acc
    ELSE FinnhubRun(FinnhubCollect(acc,
                                   GetCompanyNews(acc.s, cfg, call.day, symbols[i],
                                                  call.from_date, call.to_date,
                                                  resps[symbols[i]]),
                                   symbols[i]),
                    cfg, call, symbols, resps, i + 1)

NoNews(s) == [s |-> s, ticker_news |-> <<>>, seen |-> {}, errors |-> <<>>]

\* raw_results["newsapi_us"] and raw_results["finnhub"]
TickerNews(acc, call) ==
    [s |-> acc.s,
     errors |-> acc.errors,
     result |-> [articles |-> acc.ticker_news,
                 total_results |-> Len(acc.ticker_news),
                 last_updated |-> IsoFormat(acc.s.now),
                 date_range |-> DateRange(call)]]

NewsStage(s, cfg, call, symbols, resps) ==
    TickerNews(NewsRun(NoNews(s), cfg, call, SearchPairs(symbols), resps, 1), call)

FinnhubStage(s, cfg, call, symbols, resps) ==
    TickerNews(FinnhubRun(NoNews(s), cfg, call, symbols, resps, 1), call)

\* a stage of one call
Answered(out) ==
    [s |-> out.s, errors |-> <<HasKey(out.result, "error")>>, result |-> out.result]

\* lines 101-104: symbols[0] alone is asked of Polygon
PolygonStage(s, cfg, symbols, quote_resp, basic_resp) ==
    IF symbols # <<>>
    THEN Answered(PolygonGetStockData(s, cfg, symbols[1], quote_resp, basic_resp))
    ELSE [s |-> s, errors |-> <<>>, result |-> [error |-> "No symbols provided"]]

\* lines 95 and 110: one get_portfolio_data call
PortfolioStage(agent, s, cfg, symbols, libs) ==
    Answered(GetPortfolioData(agent, s, cfg, symbols, libs))

\* line 187
FredStage(s, cfg, day, resps) ==
    Answered(GetEconomicIndicators(s, cfg, day, resps))

-----------------------------------------------------------------------------
(* MarketDataService._structure_market_data *)

\* `name in raw_results and "error" not in raw_results[name]`
Usable(raw_results, name) ==
    HasKey(raw_results, name) /\ ~HasKey(raw_results[name], "error")

\* lines 213-229: the price entry taken from YFinance, {} when it has no
\* price above 0
YFinancePrice(raw_results, symbol) ==
    IF Usable(raw_results, "yfinance")
       /\ HasKey(raw_results.yfinance.portfolio, symbol)
       /\ ~Falsy(Get(raw_results.yfinance.portfolio[symbol], "current_price", 0))
       /\ Get(raw_results.yfinance.portfolio[symbol], "current_price", 0) > 0
    THEN [price |-> raw_results.yfinance.portfolio[symbol].current_price,
          change |-> Get(raw_results.yfinance.portfolio[symbol], "price_change_1d", 0),
          change_percent |-> Get(raw_results.yfinance.portfolio[symbol],
                                 "price_change_1d", 0),
          volume |-> Get(raw_results.yfinance.portfolio[symbol], "volume", 0),
          market_cap |-> Get(raw_results.yfinance.portfolio[symbol], "market_cap", 0),
          pe_ratio |-> Get(raw_results.yfinance.portfolio[symbol], "pe_ratio", 0)]
    ELSE EmptyDict

\* lines 235-240: Polygon fills in when the entry has no price
PolygonPrice(raw_results, entry) ==
    IF Usable(raw_results, "polygon") /\ Falsy(Get(entry, "price", NoNum))
    THEN [price |-> Get(raw_results.polygon, "price", 0),
          change |-> Get(raw_results.polygon, "change", 0),
          change_percent |-> Get(raw_results.polygon, "change_percent", 0)] @@ entry
    ELSE entry

PriceData(raw_results, symbols) ==
    [symbol \in {symbols[i] : i \in 1..Len(symbols)} |->
        PolygonPrice(raw_results, YFinancePrice(raw_results, symbol))]

CompanyKeywords ==
    [AAPL |-> <<"apple", "iphone", "ipad", "mac", "tim cook", "ios">>,
     MSFT |-> <<"microsoft", "windows", "office", "azure", "satya nadella", "xbox">>,
     GOOGL |-> <<"google", "alphabet", "youtube", "android", "chrome", "sundar pichai">>,
     TSLA |-> <<"tesla", "elon musk", "model s", "model 3", "cybertruck">>,
     NVDA |-> <<"nvidia", "gpu", "jensen huang", "rtx", "ai chips">>,
     AMZN |-> <<"amazon", "aws", "jeff bezos", "prime", "echo">>,
     META |-> <<"meta", "facebook", "instagram", "mark zuckerberg", "whatsapp">>,
     NFLX |-> <<"netflix", "streaming", "ted sarandos">>,
     JPM |-> <<"jpmorgan", "jp morgan", "jamie dimon", "chase">>,
     JNJ |-> <<"johnson & johnson", "j&j", "pharmaceuticals">>]

\* ticker.lower() of the tickers without an entry
LowerTicker == [XLK |-> "xlk"]

Keywords(ticker) ==
    IF ticker \in DOMAIN CompanyKeywords THEN CompanyKeywords[ticker]
    ELSE <<LowerTicker[ticker]>>

\* article.get(k, "").lower() on a null title, description or content
RelevanceRaises(article) ==
    \E k \in {"title", "description", "content"} : Get(article, k, "") = Null

\* f"{title} {description} {content}", before lowering
RelevanceText(article) ==
    Get(article, "title", "") \o " " \o Get(article, "description", "")
    \o " " \o Get(article, "content", "")

\* the keyword test left out
AlwaysRelevant(article, ticker) == TRUE
\* validate_company_relevance
CompanyRelevant(article, ticker) ==
    \E i \in 1..Len(Keywords(ticker)) :
        <<RelevanceText(article), Keywords(ticker)[i]>> \in LowerContains

\* the articles the two loops of lines 271-287 visit, in order
NewsArticles(raw_results) ==
    (IF Usable(raw_results, "newsapi_us")
     THEN Get(raw_results.newsapi_us, "articles", <<>>) ELSE <<>>)
    \o (IF Usable(raw_results, "finnhub")
        THEN Get(raw_results.finnhub, "articles", <<>>) ELSE <<>>)

Ticker(article) == Get(article, "related_ticker", "General")

\* an article reaches validate_company_relevance with a null text field
StructureRaises(raw_results) ==
    \E i \in 1..Len(NewsArticles(raw_results)) :
        /\ Ticker(NewsArticles(raw_results)[i]) # "General"
        /\ RelevanceRaises(NewsArticles(raw_results)[i])

RECURSIVE Attributed(_, _, _)
Attributed(articles, ticker, i) ==
    IF i > Len(articles) THEN <<>>
    ELSE (IF Ticker(articles[i]) = ticker /\ CompanyRelevant(articles[i], ticker)
          THEN <<articles[i]>> ELSE <<>>)
         \o Attributed(articles, ticker, i + 1)

TickerNewsOf(articles) ==
    [ticker \in {Ticker(articles[i]) : i \in
                    {j \in 1..Len(articles) :
                        /\ Ticker(articles[j]) # "General"
                        /\ CompanyRelevant(articles[j], Ticker(articles[j]))}} |->
        Attributed(articles, ticker, 1)]

\* a summary of the articles of a source that the relevance filter keeps
RECURSIVE Relevant(_, _)
Relevant(articles, i) ==
    IF i > Len(articles) THEN <<>>
    ELSE (IF Ticker(articles[i]) # "General"
             /\ CompanyRelevant(articles[i], Ticker(articles[i]))
          THEN <<articles[i]>> ELSE <<>>)
         \o Relevant(articles, i + 1)
SourceSentimentOfRelevant(raw_results, name) ==
    IF ~Usable(raw_results, name) \/ ~HasKey(raw_results[name], "articles") THEN <<>>
    ELSE IF Relevant(raw_results[name].articles, 1) # <<>>
    THEN <<SentimentSummary(Relevant(raw_results[name].articles, 1))>>
    ELSE <<>>

\* lines 296-322: a summary per usable source that has articles
SourceSentiment(raw_results, name) ==
    IF ~Usable(raw_results, name) THEN <<>>
    ELSE IF HasKey(raw_results[name], "sentiment_summary")
    THEN <<raw_results[name].sentiment_summary>>
    ELSE IF HasKey(raw_results[name], "articles") /\ raw_results[name].articles # <<>>
    THEN <<SentimentSummary(raw_results[name].articles)>>
    ELSE <<>>

AllSentimentData(raw_results) ==
    SourceSentiment(raw_results, "newsapi_us") \o SourceSentiment(raw_results, "finnhub")

\* the counts of the first provider alone
FirstProviderOnly(all_sentiment_data, bucket) ==
    IF all_sentiment_data = <<>> THEN 0 ELSE Get(all_sentiment_data[1], bucket, 0)
Total(all_sentiment_data, bucket) ==
    SumOf([i \in 1..Len(all_sentiment_data) |-> Get(all_sentiment_data[i], bucket, 0)])

\* the percentage rounded up to the next tenth
PercentTenthsUp(count, total) == (1000 * count + total - 1) \div total
\* round((count / total) * 100, 1), in tenths of a percent
PercentTenths(count, total) == (2000 * count + total) \div (2 * total)

\* the label of the greatest of the three counts
CombinedByGreatest(positive, negative, neutral) ==
    IF positive + negative + neutral > 0
    THEN [positive |-> PercentTenths(positive, positive + negative + neutral),
          neutral |-> PercentTenths(neutral, positive + negative + neutral),
          negative |-> PercentTenths(negative, positive + negative + neutral),
          overall_sentiment |-> IF positive > negative /\ positive > neutral
                                THEN "Positive"
                                ELSE IF negative > positive /\ negative > neutral
                                THEN "Negative"
                                ELSE "Neutral"]
    ELSE [positive |-> 0, neutral |-> 0, negative |-> 0, overall_sentiment |-> "Neutral"]
Combined(positive, negative, neutral) ==
    IF positive + negative + neutral > 0
    THEN [positive |-> PercentTenths(positive, positive + negative + neutral),
          neutral |-> PercentTenths(neutral, positive + negative + neutral),
          negative |-> PercentTenths(negative, positive + negative + neutral),
          overall_sentiment |-> IF positive > negative THEN "Positive"
                                ELSE IF negative > positive THEN "Negative"
                                ELSE "Neutral"]
    ELSE [positive |-> 0, neutral |-> 0, negative |-> 0, overall_sentiment |-> "Neutral"]

NewsSentiment(raw_results) ==
    Combined(Total(AllSentimentData(raw_results), "positive"),
             Total(AllSentimentData(raw_results), "negative"),
             Total(AllSentimentData(raw_results), "neutral"))

EconomicIndicators(raw_results) ==
    IF Usable(raw_results, "fred") /\ HasKey(raw_results.fred, "indicators")
    THEN raw_results.fred.indicators
    ELSE EmptyDict

\* the technical section read under the condition of the Polygon block above it
TechnicalDataIfPolygon(raw_results, symbols) ==
    [symbol \in {symbols[i] : i \in 1..Len(symbols)} |->
        IF Usable(raw_results, "polygon")
           /\ HasKey(Get(raw_results.technical_indicators, "portfolio", EmptyDict), symbol)
           /\ DOMAIN raw_results.technical_indicators.portfolio[symbol] # {}
        THEN raw_results.technical_indicators.portfolio[symbol]
        ELSE EmptyDict]

\* lines 384-390: whatever the technical portfolio holds for the symbol
TechnicalData(raw_results, symbols) ==
    [symbol \in {symbols[i] : i \in 1..Len(symbols)} |->
        IF Usable(raw_results, "technical_indicators")
           /\ HasKey(Get(raw_results.technical_indicators, "portfolio", EmptyDict), symbol)
           /\ DOMAIN raw_results.technical_indicators.portfolio[symbol] # {}
        THEN raw_results.technical_indicators.portfolio[symbol]
        ELSE EmptyDict]

SectorEtfs ==
    <<[sector |-> "Technology", etf |-> "XLK"],
      [sector |-> "Healthcare", etf |-> "XLV"],
      [sector |-> "Financial", etf |-> "XLF"],
      [sector |-> "Consumer Discretionary", etf |-> "XLY"],
      [sector |-> "Consumer Staples", etf |-> "XLP"],
      [sector |-> "Energy", etf |-> "XLE"],
      [sector |-> "Industrial", etf |-> "XLI"],
      [sector |-> "Materials", etf |-> "XLB"],
      [sector |-> "Real Estate", etf |-> "XLRE"],
      [sector |-> "Utilities", etf |-> "XLU"],
      [sector |-> "Communication Services", etf |-> "XLC"]>>

\* round(((current - previous) / previous) * 100, 2), in hundredths of a
\* percent
ChangePercent(current_price, previous_price) ==
    IF previous_price > 0
    THEN (2 * (current_price - previous_price) * 10000 + previous_price)
         \div (2 * previous_price)
    ELSE 0

\* lines 404-415: the ETF is one of the requested symbols
\* `etf_data.get("current_price", 0) > 0` and the subtraction on a None
SectorFromPortfolioRaises(etf_data) ==
    \/ Get(etf_data, "current_price", 0) = NoNum
    \/ /\ Get(etf_data, "current_price", 0) > 0
       /\ Get(etf_data, "price_change_1d", 0) = NoNum

SectorFromPortfolio(etf_data) ==
    IF DOMAIN etf_data # {} /\ Get(etf_data, "current_price", 0) > 0
    THEN ChangePercent(etf_data.current_price,
                       etf_data.current_price - Get(etf_data, "price_change_1d", 0))
    ELSE 0

\* lines 417-433: yf.Ticker(etf_symbol).info looked up by the structuring
\* stage itself; the lookup raises or returns the info dict
SectorFromLookup(lookup) ==
    IF lookup.kind = "ok" /\ HasKey(lookup.info, "regularMarketPrice")
       /\ HasKey(lookup.info, "previousClose")
    THEN ChangePercent(lookup.info.regularMarketPrice, lookup.info.previousClose)
    ELSE 0

SectorPerformance(raw_results, lookups) ==
    IF ~Usable(raw_results, "yfinance") THEN EmptyDict
    ELSE IF \E i \in 1..Len(SectorEtfs) :
               /\ HasKey(Get(raw_results.yfinance, "portfolio", EmptyDict), SectorEtfs[i].etf)
               /\ SectorFromPortfolioRaises(raw_results.yfinance.portfolio[SectorEtfs[i].etf])
    THEN EmptyDict
    ELSE [sector \in {SectorEtfs[i].sector : i \in 1..Len(SectorEtfs)} |->
             LET etf == (CHOOSE i \in 1..Len(SectorEtfs) : SectorEtfs[i].sector = sector)
             IN  IF HasKey(Get(raw_results.yfinance, "portfolio", EmptyDict),
                           SectorEtfs[etf].etf)
                 THEN SectorFromPortfolio(raw_results.yfinance.portfolio[SectorEtfs[etf].etf])
                 ELSE SectorFromLookup(lookups[SectorEtfs[etf].etf])]

\* lines 417-420: the ETFs the structuring stage looks up itself, in the order
\* of the table, up to the entry whose comparison raises
RECURSIVE SectorLookups(_, _)
SectorLookups(raw_results, i) ==
    IF ~Usable(raw_results, "yfinance") \/ i > Len(SectorEtfs) THEN <<>>
    ELSE IF HasKey(Get(raw_results.yfinance, "portfolio", EmptyDict), SectorEtfs[i].etf)
    THEN (IF SectorFromPortfolioRaises(raw_results.yfinance.portfolio[SectorEtfs[i].etf])
          THEN <<>> ELSE SectorLookups(raw_results, i + 1))
    ELSE <<SectorEtfs[i].etf>> \o SectorLookups(raw_results, i + 1)

\* raw_results is filled in this order
Sources == <<"yfinance", "polygon", "technical_indicators", "newsapi_us", "finnhub", "fred">>

IsErrorSource(raw_results, name) == HasKey(raw_results[name], "error")
IsAvailableSource(raw_results, name) == ~HasKey(raw_results[name], "error")

RECURSIVE SourcesWhere(_, _, _)
SourcesWhere(raw_results, Test(_, _), i) ==
    IF i > Len(Sources) THEN <<>>
    ELSE (IF HasKey(raw_results, Sources[i]) /\ Test(raw_results, Sources[i])
          THEN <<Sources[i]>> ELSE <<>>)
         \o SourcesWhere(raw_results, Test, i + 1)

StructureMarketData(raw_results, symbols, lookups, t) ==
    [available_sources |-> SourcesWhere(raw_results, IsAvailableSource, 1),
     error_sources |-> SourcesWhere(raw_results, IsErrorSource, 1),
     price_data |-> PriceData(raw_results, symbols),
     news_data |-> <<>>,
     ticker_news |-> TickerNewsOf(NewsArticles(raw_results)),
     news_sentiment |-> NewsSentiment(raw_results),
     economic_indicators |-> EconomicIndicators(raw_results),
     technical_data |-> TechnicalData(raw_results, symbols),
     sector_performance |-> SectorPerformance(raw_results, lookups),
     last_updated |-> IsoFormat(t)]

-----------------------------------------------------------------------------
(* The state after construction *)

\* __init__: the limit comes from the environment, the window starts at
\* construction time, nothing has been requested yet.
AgentInit(limits) ==
    /\ rate_limit \in [Agents -> limits]
    /\ request_count = [a \in Agents |-> 0]
    /\ request_window_start = [a \in Agents |-> now]
    /\ last_request_time = [a \in Agents |-> 0]

NoArrival == [agent |-> NoAgent, at |-> 0, count |-> 0, window_start |-> 0,
              slept |-> FALSE, woke |-> 0]
NoObs == NoArrival @@ [returned |-> 0, count_after |-> 0, window_start_after |-> 0]

CallerInit ==
    /\ pc = [c \in Callers |-> "idle"]
    /\ current_time = [c \in Callers |-> 0]
    /\ wake_at = [c \in Callers |-> 0]
    /\ arrival = [c \in Callers |-> NoArrival]
    /\ returns = <<>>
    /\ obs = NoObs


CacheInit(durations) ==
    /\ cache_duration \in [Agents -> durations]
    /\ cache = [a \in Agents |-> <<>>]
    /\ written = [a \in Agents |-> <<>>]
    /\ got = [agent |-> NoAgent]

\* no provider operation was called yet
NoFetch == [agent |-> NoAgent]

\* no aggregation call was made yet
NoWorld == [none |-> TRUE]
NoCall == [day |-> 0, is_weekend |-> FALSE, from_date |-> NoDate, to_date |-> NoDate]

AggIdle ==
    /\ world = NoWorld
    /\ agg = [pc |-> "off", symbols |-> <<>>, call |-> NoCall, started |-> 0,
              raw_results |-> EmptyDict, errors |-> EmptyDict,
              requests |-> EmptyDict, begun |-> EmptyDict, trace |-> EmptyDict,
              excepted |-> EmptyDict, lookups |-> <<>>, raised |-> FALSE,
              result |-> None, previous |-> None]

FetchIdle ==
    /\ today = 1
    /\ api_key = [a \in Agents |-> TRUE]
    /\ subject = NoAgent
    /\ fobs = NoFetch
    /\ AggIdle

-----------------------------------------------------------------------------
(* One caller making rate-limit checks on one provider instance *)

RateAgent == "NEWSAPI"

InitRate ==
    /\ now = 0
    /\ AgentInit(1..MaxRateLimit)
    /\ rate_limit[RateAgent] \in 1..MaxRateLimit
    /\ \A a \in Agents \ {RateAgent} : rate_limit[a] = 1
    /\ CallerInit
    /\ CacheInit({CACHE_DURATION})
    /\ FetchIdle

NextRate ==
    \/ Tick
    \/ Call(1, RateAgent)
    \/ L39(1)
    \/ L44(1)
    \/ L47(1)
    \/ L51(1)

SpecRate == InitRate /\ [][NextRate]_vars

-----------------------------------------------------------------------------
\* C1: no more than rate_limit acquire calls return within any interval of
\* 60 seconds: any rate_limit + 1 consecutive returns span at least 60 seconds.
C1_SlidingWindow ==
    Len(returns) > rate_limit[RateAgent] =>
        returns[Len(returns)] - returns[Len(returns) - rate_limit[RateAgent]] >= WINDOW

\* C2: a call that arrives with the limit reached, before the window has
\* passed, returns no earlier than window start + 60; on its return the window
\* starts at its wake-up time and the call is the first one counted in it.
C2_DelayedUntilReset ==
    (/\ obs.agent # NoAgent
     /\ obs.count >= rate_limit[obs.agent]
     /\ obs.at - obs.window_start < WINDOW)
    => /\ obs.slept
       /\ obs.returned >= obs.window_start + WINDOW
       /\ obs.window_start_after = obs.woke
       /\ obs.returned = obs.woke
       /\ obs.count_after = 1

C2_Witness ==
    /\ obs.agent # NoAgent
    /\ obs.count >= rate_limit[obs.agent]
    /\ obs.at - obs.window_start < WINDOW
    /\ obs.slept
    /\ obs.returned > obs.at


-----------------------------------------------------------------------------
(* _cache_set and _cache_get called directly on one provider instance *)

CacheAgent == "POLYGON"
CacheKeys == {"k1", "k2"}
CacheValues == {[value |-> 1], [value |-> 2]}

CacheSetOp(a, key, data) ==
    /\ cache' = [cache EXCEPT ![a] = CacheSet(cache[a], key, data, now, cache_duration[a])]
    /\ written' = [written EXCEPT ![a] = Written(written[a], key, now, data, EmptyDict)]
    /\ UNCHANGED <<now, cache_duration, got, notCache>>

CacheGetOp(a, key) ==
    /\ got' = [agent |-> a, key |-> key, at |-> now,
               result |-> CacheGet(cache[a], key, now),
               was_set |-> key \in DOMAIN written[a],
               last_set |-> IF key \in DOMAIN written[a]
                            THEN written[a][key]
                            ELSE [at |-> 0, data |-> None]]
    /\ UNCHANGED <<now, cache_duration, cache, written, notCache>>

TickCache ==
    /\ \E d \in CacheTickSteps :
         /\ now + d <= MaxCacheTime
         /\ now' = now + d
    /\ UNCHANGED <<cacheVars, notCache>>

InitCache ==
    /\ now = 0
    /\ AgentInit({1})
    /\ CallerInit
    /\ CacheInit(CacheDurations)
    /\ \A a \in Agents \ {CacheAgent} : cache_duration[a] = CACHE_DURATION
    /\ FetchIdle

NextCache ==
    \/ TickCache
    \/ \E key \in CacheKeys, data \in CacheValues : CacheSetOp(CacheAgent, key, data)
    \/ \E key \in CacheKeys : CacheGetOp(CacheAgent, key)

SpecCache == InitCache /\ [][NextCache]_vars

\* C3: _cache_get returns the value of the latest _cache_set of the key at
\* every time strictly before that set's time + TTL, and None at or after it;
\* for a key that was never set it returns None.
C3_CacheTTL ==
    got.agent # NoAgent =>
        got.result =
            IF got.was_set /\ got.at < got.last_set.at + cache_duration[got.agent]
            THEN got.last_set.data
            ELSE None

C3_WitnessFresh ==
    /\ got.agent # NoAgent
    /\ got.was_set
    /\ got.at > got.last_set.at
    /\ got.result = got.last_set.data

C3_Witness ==
    /\ got.agent # NoAgent
    /\ got.was_set
    /\ got.at = got.last_set.at + cache_duration[got.agent]
    /\ cache_duration[got.agent] > 0
    /\ got.result = None

-----------------------------------------------------------------------------
(* What the providers can answer *)

Symbols == {"AAPL", "MSFT"}

NewsWire == [name |-> "Wire"]
RawNews ==
    <<[title |-> "Apple shares surge on strong iPhone growth",
       description |-> "Profit beat lifts Apple",
       content |-> "Apple reported record earnings",
       url |-> "https://news.example/1",
       publishedAt |-> "2024-01-03T09:00:00Z", source |-> NewsWire],
      [title |-> "Microsoft Azure outage raises concern",
       description |-> Null,
       content |-> Null,
       url |-> "https://news.example/2",
       publishedAt |-> "2024-01-03T10:00:00Z", source |-> NewsWire],
      [title |-> "Apple and Microsoft rally",
       description |-> "Both gain",
       content |-> "Windows and Mac sales",
       url |-> "https://news.example/3",
       publishedAt |-> "2024-01-02T09:00:00Z", source |-> NewsWire],
      [title |-> "Markets fall on fear",
       description |-> "Stocks drop",
       content |-> "A weak session",
       url |-> "https://news.example/4",
       publishedAt |-> "2024-01-02T10:00:00Z", source |-> NewsWire],
      [title |-> "Chipmaker machines in demand",
       description |-> "Orders rise",
       url |-> "https://news.example/5",
       publishedAt |-> "2024-01-02T11:00:00Z", source |-> NewsWire],
      [title |-> "Markets fall on fear",
       description |-> "Stocks drop",
       content |-> "A weak session",
       url |-> "https://news.example/6",
       publishedAt |-> "2024-01-02T12:00:00Z", source |-> None],
      [title |-> "Apple iPad event announced",
       description |-> "New models",
       content |-> "Apple showed its iPad",
       url |-> "https://news.example/7",
       publishedAt |-> "2024-01-03T11:00:00Z", source |-> NewsWire],
      [title |-> "Microsoft Xbox showcase dated",
       description |-> "Schedule set",
       content |-> "Xbox titles shown",
       url |-> "https://news.example/8",
       publishedAt |-> "2024-01-03T12:00:00Z", source |-> NewsWire],
      [title |-> "XLK tech fund in focus",
       description |-> "Sector ETF",
       content |-> "The XLK fund",
       url |-> "https://news.example/9",
       publishedAt |-> "2024-01-03T13:00:00Z", source |-> NewsWire]>>

NewsBody(indices) ==
    [status |-> "ok", totalResults |-> Len(indices),
     articles |-> [i \in 1..Len(indices) |-> RawNews[indices[i]]]]

RawFinnhub ==
    <<[id |-> 101, category |-> "company", datetime |-> 1704272400,
       headline |-> "Apple wins positive ruling", summary |-> "Shares higher",
       url |-> "https://finnhub.example/101", source |-> "Wire", related |-> "AAPL",
       image |-> ""],
      [id |-> 102, category |-> "company", datetime |-> 1704276000,
       headline |-> "Microsoft lower after weak outlook", summary |-> "Investors worry",
       url |-> "https://finnhub.example/102", source |-> "Wire", related |-> "MSFT",
       image |-> ""],
      [id |-> 103, category |-> "company", datetime |-> 0,
       headline |-> "Apple wins positive ruling", summary |-> Null,
       url |-> "https://finnhub.example/103", source |-> "Wire", related |-> "AAPL",
       image |-> ""]>>

FinnhubBody(indices) == [list |-> [i \in 1..Len(indices) |-> RawFinnhub[indices[i]]]]

PolygonQuote == [status |-> "OK", results |-> <<[o |-> 100, c |-> 110, h |-> 112,
                                                  l |-> 99, v |-> 5000]>>]
PolygonNoQuote == [status |-> "OK", results |-> <<>>]
PolygonCompany == [name |-> "Apple Inc.", sector |-> "Technology"]

FredObservations ==
    [observations |-> <<[date |-> "2023-12-01", value |-> Num(380)],
                        [date |-> "2023-11-01", value |-> Num(400)]>>]
FredMissing ==
    [observations |-> <<[date |-> "2023-12-01", value |-> Dot]>>]
FredEmpty == [observations |-> <<>>]

InfoFull == [currentPrice |-> 150, regularMarketChangePercent |-> 2, volume |-> 9000,
             longName |-> "Apple Inc.", sector |-> "Technology", marketCap |-> 3000,
             trailingPE |-> 30]
InfoBare == [longName |-> "Apple Inc."]
History == <<[Close |-> 100, Volume |-> 7000], [Close |-> 105, Volume |-> 8000]>>

TechnicalHistory(len) ==
    [kind |-> "ok", hist |-> [len |-> len, indicators |-> [rsi |-> 55, macd |-> 1]]]

-----------------------------------------------------------------------------
(* One provider instance, its fetch operations called one after another *)

FetchTickSteps == {60, 300}
FetchLimits == {2}
DateArgs == {<<NoDate, NoDate>>, <<DateStr(1), DateStr(8)>>}

Failures == {RequestFailed, RequestRaised}
NewsResponses ==
    Failures \cup {Json(NewsBody(<<1, 4>>)), Json(NewsBody(<<6>>)),
                   Json([status |-> "error"])}
FinnhubResponses ==
    Failures \cup {Json(FinnhubBody(<<1, 2>>)), Json(FinnhubBody(<<3>>)),
                   Json(FinnhubBody(<<>>)), Json([error |-> "Invalid API key"])}
QuoteResponses == Failures \cup {Json(PolygonQuote), Json(PolygonNoQuote)}
BasicResponses == Failures \cup {Json(PolygonCompany)}
FredResponses ==
    {[id \in {FredSeries[i].series_id : i \in 1..Len(FredSeries)} |-> RequestFailed],
     [id \in {FredSeries[i].series_id : i \in 1..Len(FredSeries)} |-> Json(FredObservations)],
     [id \in {FredSeries[i].series_id : i \in 1..Len(FredSeries)} |->
         IF id = "UNRATE" THEN Json(FredEmpty)
         ELSE IF id = "GDP" THEN RequestRaised
         ELSE IF id = "GS10" THEN Json(FredMissing)
         ELSE Json(FredObservations)]}
YFinanceLibraries == {LibraryRaised, Library(InfoFull, History), Library(InfoBare, <<>>)}
TechnicalLibraries == {LibraryRaised, TechnicalHistory(0), TechnicalHistory(19),
                       TechnicalHistory(20)}
Portfolios == {<<"AAPL">>, <<"AAPL", "MSFT">>}

\* a response that carries no data
IsFailure(resp) == resp.kind # "json"

\* one cache dict held by the class, shared by every instance
CommitSharedCache(a, s) ==
    /\ now' = s.now
    /\ request_count' = [request_count EXCEPT ![a] = s.request_count]
    /\ request_window_start' = [request_window_start EXCEPT ![a] = s.request_window_start]
    /\ last_request_time' = [last_request_time EXCEPT ![a] = s.last_request_time]
    /\ cache' = [b \in Agents |-> s.cache @@ cache[b]]
    /\ written' = [b \in Agents |-> s.written @@ written[b]]

\* the operation's writes to self.* of its own instance
Commit(a, s) ==
    /\ now' = s.now
    /\ request_count' = [request_count EXCEPT ![a] = s.request_count]
    /\ request_window_start' = [request_window_start EXCEPT ![a] = s.request_window_start]
    /\ last_request_time' = [last_request_time EXCEPT ![a] = s.last_request_time]
    /\ cache' = [cache EXCEPT ![a] = s.cache]
    /\ written' = [written EXCEPT ![a] = s.written]

\* `failed`: the operation asked upstream and every answer it got was a failure
Observe(a, op, key, out, failed) ==
    fobs' = [agent |-> a, op |-> op, key |-> key, at |-> now,
             configured |-> api_key[a],
             result |-> out.result,
             requests |-> out.s.requests,
             hits |-> out.s.hits,
             failed |-> failed,
             returned |-> out.s.now]

Fetched(a, op, key, out, failed) ==
    /\ out.s.now <= MaxFetchTime
    /\ Commit(a, out.s)
    /\ Observe(a, op, key, out, failed)
    /\ UNCHANGED <<rate_limit, callerVars, cache_duration, got, today, api_key, subject,
                   aggVars>>

SearchNewsOp ==
    /\ subject = "NEWSAPI"
    /\ \E dates \in DateArgs, resp \in NewsResponses :
          LET out == SearchNews(AgentState(subject), Config(subject), today,
                                "Apple", 6, dates[1], dates[2], resp)
          IN  Fetched(subject, "search_news", out.key, out,
                      out.s.requests # <<>> /\ IsFailure(resp))

GetCompanyNewsOp ==
    /\ subject = "FINNHUB"
    /\ \E dates \in DateArgs, resp \in FinnhubResponses :
          LET out == GetCompanyNews(AgentState(subject), Config(subject), today,
                                    "AAPL", dates[1], dates[2], resp)
          IN  Fetched(subject, "get_company_news", out.key, out,
                      out.s.requests # <<>> /\ IsFailure(resp))

PolygonGetStockDataOp ==
    /\ subject = "POLYGON"
    /\ \E symbol \in Symbols, quote_resp \in QuoteResponses,
          basic_resp \in BasicResponses :
          LET out == PolygonGetStockData(AgentState(subject), Config(subject),
                                         symbol, quote_resp, basic_resp)
          IN  Fetched(subject, "get_stock_data", out.key, out,
                      Len(out.s.requests) = 2 /\ IsFailure(quote_resp)
                      /\ IsFailure(basic_resp))

GetEconomicIndicatorsOp ==
    /\ subject = "FRED"
    /\ \E resps \in FredResponses :
          LET out == GetEconomicIndicators(AgentState(subject), Config(subject),
                                           today, resps)
          IN  Fetched(subject, "get_economic_indicators", out.key, out,
                      out.s.requests # <<>>
                      /\ \A id \in DOMAIN resps : IsFailure(resps[id]))

GetStockDataOp ==
    /\ subject \in {"YFINANCE", "TECHNICAL_INDICATORS"}
    /\ \E symbol \in Symbols,
          lib \in IF subject = "YFINANCE" THEN YFinanceLibraries ELSE TechnicalLibraries :
          LET out == IF subject = "YFINANCE"
                     THEN YFinanceGetStockData(AgentState(subject), Config(subject),
                                               symbol, lib)
                     ELSE TechnicalGetStockData(AgentState(subject), Config(subject),
                                                symbol, lib)
          IN  Fetched(subject, "get_stock_data", out.key, out,
                      out.s.requests # <<>> /\ lib.kind = "Exception")

GetPortfolioDataOp ==
    /\ subject \in {"YFINANCE", "TECHNICAL_INDICATORS"}
    /\ \E symbols \in Portfolios,
          libs \in [Symbols -> IF subject = "YFINANCE" THEN YFinanceLibraries
                               ELSE TechnicalLibraries] :
          LET out == GetPortfolioData(subject, AgentState(subject), Config(subject),
                                      symbols, libs)
          IN  Fetched(subject, "get_portfolio_data", "", out,
                      Len(out.s.requests) = Len(symbols)
                      /\ \A i \in 1..Len(symbols) : libs[symbols[i]].kind = "Exception")

\* time passes between two operations; the observation is of the latest
\* operation until then
FetchTick ==
    /\ \E d \in FetchTickSteps : now + d <= MaxFetchTime /\ now' = now + d
    /\ fobs' = NoFetch
    /\ UNCHANGED <<agentVars, callerVars, cacheVars, today, api_key, subject, aggVars>>

InitFetch ==
    /\ now = 0
    /\ today = 4
    /\ \E a \in Agents, configured \in BOOLEAN, limit \in FetchLimits :
          /\ subject = a
          /\ api_key = [b \in Agents |-> b # a \/ configured
                                         \/ a \in {"YFINANCE", "TECHNICAL_INDICATORS"}]
          /\ rate_limit = [b \in Agents |-> limit]
    /\ AgentInit(FetchLimits)
    /\ CallerInit
    /\ CacheInit({CACHE_DURATION})
    /\ fobs = NoFetch
    /\ AggIdle

NextFetch ==
    \/ FetchTick
    \/ SearchNewsOp
    \/ GetCompanyNewsOp
    \/ PolygonGetStockDataOp
    \/ GetEconomicIndicatorsOp
    \/ GetStockDataOp
    \/ GetPortfolioDataOp

SpecFetch == InitFetch /\ [][NextFetch]_vars

-----------------------------------------------------------------------------
\* C4: a fetch that finds an unexpired cache entry under its key returns the
\* stored payload, makes no request, and leaves the provider's request_count
\* and request_window_start as they were.
C4_CacheHit ==
    [][(/\ fobs'.agent # NoAgent
        /\ fobs'.key # ""
        /\ api_key[subject]
        /\ CacheGet(cache[subject], fobs'.key, now) # None)
       => /\ fobs'.result = CacheGet(cache[subject], fobs'.key, now)
          /\ fobs'.requests = <<>>
          /\ request_count'[subject] = request_count[subject]
          /\ request_window_start'[subject] = request_window_start[subject]]_vars

C4_Witness ==
    /\ fobs.agent # NoAgent
    /\ fobs.key # ""
    /\ fobs.hits # <<>>
    /\ fobs.requests = <<>>
    /\ request_count[fobs.agent] > 0
    /\ fobs.result = cache[fobs.agent][fobs.key].data

\* C5: after a fetch that missed the cache and whose result is an error, the
\* cache serves nothing for that key, so the next fetch asks again.
C5_ErrorsNotCached ==
    (/\ fobs.agent # NoAgent
     /\ fobs.requests # <<>>
     /\ HasKey(fobs.result, "error"))
    => CacheGet(cache[fobs.agent], fobs.key, now) = None

\* C6: a cache hit only ever returns a payload that was stored by a fetch with
\* the same parameters.
C6_HitSameParams ==
    fobs.agent # NoAgent =>
        \A i \in 1..Len(fobs.hits) : fobs.hits[i].stored = fobs.hits[i].asked

C8_FailureIsError ==
    (fobs.agent # NoAgent /\ fobs.failed) => HasKey(fobs.result, "error")

-----------------------------------------------------------------------------
(* What the upstream services answer during one aggregation call *)

Etfs == {SectorEtfs[i].etf : i \in 1..Len(SectorEtfs)}
FredIds == {FredSeries[i].series_id : i \in 1..Len(FredSeries)}
EtfInfo(price, previous) ==
    [kind |-> "ok", info |-> [regularMarketPrice |-> price, previousClose |-> previous]]

\* the symbols the service is asked about: two companies and a sector ETF
AggSymbols == Symbols \cup {"XLK"}

\* the answers to the five searches these symbols lead to
NewsAnswers(apple, apple_inc, microsoft, microsoft_corporation, xlk) ==
    ("Apple" :> apple) @@ ("Apple Inc" :> apple_inc) @@ ("Microsoft" :> microsoft)
    @@ ("Microsoft Corporation" :> microsoft_corporation) @@ ("XLK" :> xlk)

AllAnswer ==
    [yfinance |-> [symbol \in AggSymbols |-> Library(InfoFull, History)],
     technical |-> [symbol \in AggSymbols |-> TechnicalHistory(30)],
     quote |-> Json(PolygonQuote),
     basic |-> Json(PolygonCompany),
     news |-> NewsAnswers(Json(NewsBody(<<1, 3>>)), Json(NewsBody(<<1, 5>>)),
                          Json(NewsBody(<<3, 4>>)), Json(NewsBody(<<4>>)),
                          Json(NewsBody(<<9, 4>>))),
     finnhub |-> [symbol \in AggSymbols |->
                     IF symbol = "AAPL" THEN Json(FinnhubBody(<<1>>))
                     ELSE Json(FinnhubBody(<<2>>))],
     fred |-> [id \in FredIds |-> Json(FredObservations)],
     etf |-> [etf \in Etfs |-> EtfInfo(102, 100)]]

AllFail ==
    [yfinance |-> [symbol \in AggSymbols |-> LibraryRaised],
     technical |-> [symbol \in AggSymbols |-> LibraryRaised],
     quote |-> RequestFailed,
     basic |-> RequestFailed,
     news |-> NewsAnswers(RequestFailed, RequestFailed, RequestFailed, RequestFailed,
                          RequestFailed),
     finnhub |-> [symbol \in AggSymbols |-> RequestFailed],
     fred |-> [id \in FredIds |-> RequestFailed],
     etf |-> [etf \in Etfs |-> LibraryRaised]]

\* NewsAPI answers the Microsoft search with an article whose description and
\* content are null
NullText ==
    [AllAnswer EXCEPT !.news = NewsAnswers(Json(NewsBody(<<1, 3>>)), Json(NewsBody(<<1>>)),
                                           Json(NewsBody(<<2, 3>>)), Json(NewsBody(<<4>>)),
                                           Json(NewsBody(<<9>>)))]

\* yfinance has no price for AAPL nor for the ETF; histories are short
Partial ==
    [yfinance |-> [symbol \in AggSymbols |->
                      IF symbol = "MSFT" THEN LibraryRaised ELSE Library(InfoBare, <<>>)],
     technical |-> [symbol \in AggSymbols |->
                      IF symbol = "MSFT" THEN LibraryRaised ELSE TechnicalHistory(19)],
     quote |-> Json(PolygonQuote),
     basic |-> RequestFailed,
     news |-> NewsAnswers(RequestRaised, Json([status |-> "error"]),
                          Json(NewsBody(<<6>>)), Json(NewsBody(<<4, 4>>)),
                          Json(NewsBody(<<>>))),
     finnhub |-> [symbol \in AggSymbols |->
                     IF symbol = "AAPL" THEN Json(FinnhubBody(<<3>>))
                     ELSE Json(FinnhubBody(<<2, 2>>))],
     fred |-> [id \in FredIds |->
                  IF id = "UNRATE" THEN Json(FredEmpty)
                  ELSE IF id = "GDP" THEN RequestRaised
                  ELSE IF id = "GS10" THEN Json(FredMissing)
                  ELSE Json(FredObservations)],
     etf |-> [etf \in Etfs |->
                  IF etf = "XLK" THEN EtfInfo(99, 100)
                  ELSE IF etf = "XLV" THEN [kind |-> "ok", info |-> EmptyDict]
                  ELSE IF etf = "XLF" THEN EtfInfo(50, 0)
                  ELSE LibraryRaised]]

\* articles of every sentiment, one of them about neither company
Mixed ==
    [AllAnswer EXCEPT !.news = NewsAnswers(Json(NewsBody(<<1, 7>>)), Json(NewsBody(<<4>>)),
                                           Json(NewsBody(<<8>>)), Json(NewsBody(<<8>>)),
                                           Json(NewsBody(<<9>>))),
                      !.finnhub = [symbol \in AggSymbols |->
                                      IF symbol = "MSFT" THEN Json(FinnhubBody(<<1>>))
                                      ELSE RequestFailed],
                      !.technical = [symbol \in AggSymbols |-> TechnicalHistory(20)]]

Worlds == {AllAnswer, AllFail, NullText, Partial, Mixed}

-----------------------------------------------------------------------------
(* MarketDataService: one service with its six agents, asked for the same
   portfolio again and again *)

AggTickSteps == {250, 400}
SymbolLists == {<<>>, <<"AAPL">>, <<"AAPL", "MSFT">>, <<"XLK">>}
MissingKeys == {{}, {"NEWSAPI"}, {"POLYGON", "NEWSAPI", "FINNHUB", "FRED"}}
\* the days of the first week of January 2024, Monday to Sunday
Weekdays == 1..7
\* NEWSAPI_RATE_LIMIT: unset (60), or set to 1
NewsLimits == {1, RATE_LIMIT}

InitAgg ==
    /\ now = 0
    /\ today \in Weekdays
    /\ \E missing \in MissingKeys : api_key = [a \in Agents |-> a \notin missing]
    /\ subject = NoAgent
    /\ fobs = NoFetch
    /\ AgentInit(NewsLimits)
    /\ \A a \in Agents \ {"NEWSAPI"} : rate_limit[a] = RATE_LIMIT
    /\ CallerInit
    /\ CacheInit({CACHE_DURATION})
    /\ world = NoWorld
    /\ \E symbols \in SymbolLists :
          agg = [pc |-> "idle", symbols |-> symbols, call |-> NoCall, started |-> 0,
                 raw_results |-> EmptyDict, errors |-> EmptyDict,
                 requests |-> EmptyDict, begun |-> EmptyDict, trace |-> EmptyDict,
                 excepted |-> EmptyDict, lookups |-> <<>>, raised |-> FALSE,
                 result |-> None, previous |-> None]

\* lines 73-90 of get_comprehensive_market_data; from here on the upstream
\* services answer as `world` says
GetComprehensiveMarketData ==
    /\ agg.pc = "idle"
    /\ world' \in Worlds
    /\ agg' = [agg EXCEPT !.pc = "yfinance", !.call = Window(today), !.started = now,
                          !.raw_results = EmptyDict, !.errors = EmptyDict,
                          !.requests = EmptyDict, !.begun = EmptyDict,
                          !.trace = EmptyDict, !.excepted = EmptyDict,
                          !.lookups = <<>>,
                          !.raised = FALSE, !.result = None]
    /\ UNCHANGED <<now, agentVars, callerVars, cacheVars, fetchVars>>

\* raw_results[name] = what the stage gave, and on to the next stage; the
\* stage began at `now` and ends at the time its last statement returned
Staged(a, name, out, next) ==
    /\ out.s.now <= MaxAggTime
    /\ Commit(a, out.s)
    /\ agg' = [agg EXCEPT !.pc = next,
                          !.raw_results = @ @@ (name :> out.result),
                          !.errors = @ @@ (name :> out.errors),
                          !.requests = @ @@ (name :> out.s.requests),
                          !.begun = @ @@ (name :> now),
                          !.trace = @ @@ (name :> out.s.trace),
                          !.excepted = @ @@ (name :> out.s.excepted)]
    /\ UNCHANGED <<rate_limit, callerVars, cache_duration, got, fetchVars, world>>

YFinanceStage ==
    /\ agg.pc = "yfinance"
    /\ Staged("YFINANCE", "yfinance",
              PortfolioStage("YFINANCE", AgentState("YFINANCE"), Config("YFINANCE"),
                             agg.symbols, world.yfinance),
              "polygon")

PolygonStageOp ==
    /\ agg.pc = "polygon"
    /\ Staged("POLYGON", "polygon",
              PolygonStage(AgentState("POLYGON"), Config("POLYGON"), agg.symbols,
                           world.quote, world.basic),
              "technical_indicators")

TechnicalStage ==
    /\ agg.pc = "technical_indicators"
    /\ Staged("TECHNICAL_INDICATORS", "technical_indicators",
              PortfolioStage("TECHNICAL_INDICATORS", AgentState("TECHNICAL_INDICATORS"),
                             Config("TECHNICAL_INDICATORS"), agg.symbols, world.technical),
              "newsapi_us")

NewsStageOp ==
    /\ agg.pc = "newsapi_us"
    /\ Staged("NEWSAPI", "newsapi_us",
              NewsStage(AgentState("NEWSAPI"), Config("NEWSAPI"), agg.call, agg.symbols,
                        world.news),
              "finnhub")

FinnhubStageOp ==
    /\ agg.pc = "finnhub"
    /\ Staged("FINNHUB", "finnhub",
              FinnhubStage(AgentState("FINNHUB"), Config("FINNHUB"), agg.call,
                           agg.symbols, world.finnhub),
              "fred")

FredStageOp ==
    /\ agg.pc = "fred"
    /\ Staged("FRED", "fred",
              FredStage(AgentState("FRED"), Config("FRED"), agg.call.day, world.fred),
              "structure")

\* line 192: the call returns the snapshot, or the exception of the
\* structuring stage leaves it
Structure ==
    /\ agg.pc = "structure"
    /\ agg' = [agg EXCEPT !.pc = "done",
                          !.lookups = IF StructureRaises(agg.raw_results) THEN <<>>
                                      ELSE SectorLookups(agg.raw_results, 1),
                          !.raised = StructureRaises(agg.raw_results),
                          !.result = IF StructureRaises(agg.raw_results) THEN None
                                     ELSE StructureMarketData(agg.raw_results, agg.symbols,
                                                              world.etf, now)]
    /\ UNCHANGED <<now, agentVars, callerVars, cacheVars, fetchVars, world>>

\* time passes before the service is asked again; the call that has returned
\* is then the previous one
AggTick ==
    /\ agg.pc = "done"
    /\ \E d \in AggTickSteps : now + d <= MaxAggTime /\ now' = now + d
    /\ agg' = [agg EXCEPT !.pc = "idle",
                          !.previous = [world |-> world, call |-> agg.call,
                                        started |-> agg.started, raised |-> agg.raised,
                                        result |-> agg.result,
                                        excepted |-> agg.excepted,
                                        request_count |-> request_count]]
    /\ UNCHANGED <<agentVars, callerVars, cacheVars, fetchVars, world>>

NextAgg ==
    \/ GetComprehensiveMarketData
    \/ YFinanceStage
    \/ PolygonStageOp
    \/ TechnicalStage
    \/ NewsStageOp
    \/ FinnhubStageOp
    \/ FredStageOp
    \/ Structure
    \/ AggTick

SpecAgg == InitAgg /\ [][NextAgg]_vars

Finished == agg.pc = "done"

\* the sources every one of whose calls in this fetch returned an error, and
\* those with a call that returned data
ReturnedError(name) ==
    agg.errors[name] # <<>> /\ \A i \in 1..Len(agg.errors[name]) : agg.errors[name][i]
ReturnedData(name) ==
    \E i \in 1..Len(agg.errors[name]) : ~agg.errors[name][i]
Listed(list, name) == \E i \in 1..Len(list) : list[i] = name

\* C9: get_comprehensive_market_data always returns a snapshot and never
\* raises, whatever the providers answer and whatever text fields are null
C9_AlwaysReturns ==
    Finished => (~agg.raised /\ HasKey(agg.result, "available_sources"))

\* C10: a provider all of whose calls returned an error is in error_sources and
\* not in available_sources; one that returned data is in available_sources
\* and not in error_sources
C10_SourcesTellOutcome ==
    (Finished /\ ~agg.raised) =>
        \A i \in 1..Len(Sources) :
            /\ ReturnedError(Sources[i]) =>
                  /\ Listed(agg.result.error_sources, Sources[i])
                  /\ ~Listed(agg.result.available_sources, Sources[i])
            /\ ReturnedData(Sources[i]) =>
                  /\ Listed(agg.result.available_sources, Sources[i])
                  /\ ~Listed(agg.result.error_sources, Sources[i])

-----------------------------------------------------------------------------
(* One provider failing, the others unaffected *)

\* the calls the aggregator makes to each provider for the portfolio
ExpectedCalls(name) ==
    IF name = "polygon" THEN (IF agg.symbols = <<>> THEN 0 ELSE 1)
    ELSE IF name = "newsapi_us" THEN Len(SearchPairs(agg.symbols))
    ELSE IF name = "finnhub" THEN Len(agg.symbols)
    ELSE 1

\* the sections of the snapshot that read a provider's entry of raw_results
SectionsOf ==
    [yfinance |-> {"price_data", "sector_performance"},
     polygon |-> {"price_data"},
     technical_indicators |-> {"technical_data"},
     newsapi_us |-> {"ticker_news", "news_sentiment"},
     finnhub |-> {"ticker_news", "news_sentiment"},
     fred |-> {"economic_indicators"}]
Sections == UNION {SectionsOf[name] : name \in DOMAIN SectionsOf}

\* an agent as constructed, at this time
Fresh(a) == [AgentState(a) EXCEPT !.cache = <<>>, !.written = <<>>]

\* what a provider's stage leaves in raw_results when its fetch raises (the
\* except branch) and when every upstream answer to it is a failure
FailedResults(name) ==
    {[error |-> "Exception"],
     IF name = "yfinance"
     THEN PortfolioStage("YFINANCE", Fresh("YFINANCE"), Config("YFINANCE"),
                         agg.symbols, AllFail.yfinance).result
     ELSE IF name = "polygon"
     THEN PolygonStage(Fresh("POLYGON"), Config("POLYGON"), agg.symbols,
                       AllFail.quote, AllFail.basic).result
     ELSE IF name = "technical_indicators"
     THEN PortfolioStage("TECHNICAL_INDICATORS", Fresh("TECHNICAL_INDICATORS"),
                         Config("TECHNICAL_INDICATORS"), agg.symbols,
                         AllFail.technical).result
     ELSE IF name = "newsapi_us"
     THEN NewsStage(Fresh("NEWSAPI"), Config("NEWSAPI"), agg.call, agg.symbols,
                    AllFail.news).result
     ELSE IF name = "finnhub"
     THEN FinnhubStage(Fresh("FINNHUB"), Config("FINNHUB"), agg.call, agg.symbols,
                       AllFail.finnhub).result
     ELSE FredStage(Fresh("FRED"), Config("FRED"), agg.call.day, AllFail.fred).result}

\* the snapshot of this call had the provider failed that way
SnapshotWith(name, failed) ==
    StructureMarketData([agg.raw_results EXCEPT ![name] = failed], agg.symbols,
                        world.etf, now)

\* C11: when one provider's fetch returns an error or raises, every other
\* provider is still asked in the same call, and each section of the snapshot
\* that is derived from the other providers holds the same data as when that
\* provider does not fail
C11_FailureIsolated ==
    Finished =>
        /\ \A i \in 1..Len(Sources) :
              /\ HasKey(agg.raw_results, Sources[i])
              /\ Len(agg.errors[Sources[i]]) = ExpectedCalls(Sources[i])
        /\ ~agg.raised =>
              \A i \in 1..Len(Sources) : \A failed \in FailedResults(Sources[i]) :
                  \A section \in Sections \ SectionsOf[Sources[i]] :
                      SnapshotWith(Sources[i], failed)[section] = agg.result[section]

\* a call in which every NewsAPI search returned an error and the other five
\* providers returned data that the snapshot holds
C11_Witness ==
    /\ Finished
    /\ ~agg.raised
    /\ ReturnedError("newsapi_us")
    /\ \A i \in 1..Len(Sources) : Sources[i] # "newsapi_us" => ReturnedData(Sources[i])
    /\ agg.symbols = <<"AAPL", "MSFT">>
    /\ agg.result.technical_data["MSFT"] # EmptyDict
    /\ agg.result.economic_indicators # EmptyDict
    /\ agg.result.price_data["MSFT"] # EmptyDict
    /\ agg.result.news_sentiment.negative > 0

-----------------------------------------------------------------------------
(* The merged price *)

\* the price the primary provider has for the symbol, 0 when it has none
PrimaryPrice(symbol) ==
    IF HasKey(agg.raw_results.yfinance, "portfolio")
       /\ HasKey(agg.raw_results.yfinance.portfolio, symbol)
       /\ ~Falsy(Get(agg.raw_results.yfinance.portfolio[symbol], "current_price", 0))
    THEN agg.raw_results.yfinance.portfolio[symbol].current_price
    ELSE 0

\* the secondary provider reports a price for the symbol
SecondaryReports(symbol) ==
    /\ ~HasKey(agg.raw_results.polygon, "error")
    /\ Get(agg.raw_results.polygon, "symbol", "") = symbol
    /\ Get(agg.raw_results.polygon, "current_price", 0) > 0

\* C12: the merged price of a requested symbol is the primary provider's price
\* when that is present and above 0, and otherwise the price the secondary
\* provider reports for the symbol
C12_PriceMerge ==
    (Finished /\ ~agg.raised) =>
        \A i \in 1..Len(agg.symbols) :
            IF PrimaryPrice(agg.symbols[i]) > 0
            THEN Get(agg.result.price_data[agg.symbols[i]], "price", 0)
                 = PrimaryPrice(agg.symbols[i])
            ELSE SecondaryReports(agg.symbols[i]) =>
                    Get(agg.result.price_data[agg.symbols[i]], "price", 0)
                    = agg.raw_results.polygon.current_price

-----------------------------------------------------------------------------
(* Duplicates among the articles *)

SameArticle(a, b) ==
    Get(a, "title", "") = Get(b, "title", "") /\ Get(a, "url", "") = Get(b, "url", "")

\* the articles NewsAPI returned for the i-th search of this call, when the
\* search was answered by the service and not by the cache
ReturnedFor(i) ==
    IF /\ world.news[SearchPairs(agg.symbols)[i].term].kind = "json"
       /\ HasKey(world.news[SearchPairs(agg.symbols)[i].term].body, "articles")
       /\ ~HasKey(agg.raw_results.newsapi_us, "error")
       /\ Len(agg.requests.newsapi_us) = Len(SearchPairs(agg.symbols))
    THEN world.news[SearchPairs(agg.symbols)[i].term].body.articles
    ELSE <<>>

Returns(i, article) ==
    \E k \in 1..Len(ReturnedFor(i)) : SameArticle(ReturnedFor(i)[k], article)

\* the search an article of ticker_news is tagged with
SearchOf(article) ==
    CHOOSE i \in 1..Len(SearchPairs(agg.symbols)) :
        /\ SearchPairs(agg.symbols)[i].symbol = article.related_ticker
        /\ SearchPairs(agg.symbols)[i].term = article.search_term

\* C13: the ticker_news list of a ticker holds at most one article with a
\* given (title, url), and the one kept is the first occurrence in fetch order
C13_NoDuplicates ==
    (Finished /\ ~agg.raised) =>
        \A ticker \in DOMAIN agg.result.ticker_news :
            LET list == agg.result.ticker_news[ticker]
            IN  /\ \A i, j \in 1..Len(list) : SameArticle(list[i], list[j]) => i = j
                /\ \A i \in 1..Len(list) :
                      (HasKey(list[i], "search_term")
                       /\ Len(agg.requests.newsapi_us) = Len(SearchPairs(agg.symbols)))
                      => \A k \in 1..(SearchOf(list[i]) - 1) : ~Returns(k, list[i])

\* one article was returned by two searches for the same symbol and another by
\* searches for two symbols, and ticker_news lists both
C13_Witness ==
    /\ Finished
    /\ ~agg.raised
    /\ agg.symbols = <<"AAPL", "MSFT">>
    /\ HasKey(agg.result.ticker_news, "AAPL")
    /\ \E a, b \in 1..Len(agg.result.ticker_news["AAPL"]) :
          /\ Returns(1, agg.result.ticker_news["AAPL"][a])
          /\ Returns(2, agg.result.ticker_news["AAPL"][a])
          /\ Returns(1, agg.result.ticker_news["AAPL"][b])
          /\ Returns(3, agg.result.ticker_news["AAPL"][b])

-----------------------------------------------------------------------------
(* Relevance of the attributed articles *)

\* title + description + content of an article of the snapshot, a field the
\* article lacks being empty
TextOf(article) ==
    Get(article, "title", "") \o " " \o Get(article, "description", "") \o " "
    \o Get(article, "content", "")

\* the text mentions a keyword of the ticker's keyword set
Mentions(article, ticker) ==
    \E i \in 1..Len(Keywords(ticker)) :
        <<TextOf(article), Keywords(ticker)[i]>> \in LowerContains

\* C14: every article of ticker_news[T] has a keyword of T in its title,
\* description and content; so an article with keywords of another ticker only
\* is never listed under T, and ticker_news has no "General" key
C14_OnlyRelevant ==
    (Finished /\ ~agg.raised) =>
        /\ "General" \notin DOMAIN agg.result.ticker_news
        /\ \A ticker \in DOMAIN agg.result.ticker_news :
              /\ Listed(agg.symbols, ticker)
              /\ \A i \in 1..Len(agg.result.ticker_news[ticker]) :
                    Mentions(agg.result.ticker_news[ticker][i], ticker)

\* an article found for MSFT that mentions no keyword of MSFT was dropped
\* while articles of AAPL are listed
C14_Witness ==
    /\ Finished
    /\ ~agg.raised
    /\ HasKey(agg.result.ticker_news, "AAPL")
    /\ \E i \in 1..Len(agg.raw_results.newsapi_us.articles) :
          /\ agg.raw_results.newsapi_us.articles[i].related_ticker = "MSFT"
          /\ ~Mentions(agg.raw_results.newsapi_us.articles[i], "MSFT")
          /\ \A ticker \in DOMAIN agg.result.ticker_news :
                \A k \in 1..Len(agg.result.ticker_news[ticker]) :
                    ~SameArticle(agg.result.ticker_news[ticker][k],
                                 agg.raw_results.newsapi_us.articles[i])

-----------------------------------------------------------------------------
(* The combined sentiment. Percentages are in tenths of a percent. *)

\* the articles a provider's result carries into the combination
CountedArticles(name) ==
    IF HasKey(agg.raw_results[name], "error") THEN <<>>
    ELSE agg.raw_results[name].articles

\* the articles of both providers with the sentiment `bucket`
Counted(bucket) ==
    Cardinality({i \in 1..Len(CountedArticles("newsapi_us")) :
                    Get(CountedArticles("newsapi_us")[i], "sentiment", "neutral") = bucket})
    + Cardinality({i \in 1..Len(CountedArticles("finnhub")) :
                    Get(CountedArticles("finnhub")[i], "sentiment", "neutral") = bucket})

CountedTotal == Counted("positive") + Counted("negative") + Counted("neutral")

Buckets == {"positive", "negative", "neutral"}

\* the overall label, whatever its capitals
Label == [Positive |-> "positive", Negative |-> "negative", Neutral |-> "neutral"]
     [agg.result.news_sentiment.overall_sentiment]

NoneCounted ==
    /\ \A bucket \in Buckets : agg.result.news_sentiment[bucket] = 0
    /\ Label = "neutral"

\* C15 as stated: the reported percentages are exactly P/T*100, N/T*100 and
\* U/T*100 of the counts summed across both news providers, and with T = 0 all
\* three are 0 and the label is neutral
C15_ExactPercentages ==
    (Finished /\ ~agg.raised) =>
        IF CountedTotal > 0
        THEN \A bucket \in Buckets :
                agg.result.news_sentiment[bucket] * CountedTotal = 1000 * Counted(bucket)
        ELSE NoneCounted

\* C15 amended: the reported percentages are P/T*100, N/T*100 and U/T*100 of
\* the counts summed across both news providers, each rounded to one decimal
\* place; with T = 0 all three are 0 and the label is neutral
C15_RoundedPercentages ==
    (Finished /\ ~agg.raised) =>
        IF CountedTotal > 0
        THEN \A bucket \in Buckets :
                LET diff == agg.result.news_sentiment[bucket] * CountedTotal
                            - 1000 * Counted(bucket)
                IN  2 * diff <= CountedTotal /\ -2 * diff <= CountedTotal
        ELSE NoneCounted

\* both providers contributed articles and a percentage had to be rounded
C15_Witness ==
    /\ Finished
    /\ ~agg.raised
    /\ CountedArticles("newsapi_us") # <<>>
    /\ CountedArticles("finnhub") # <<>>
    /\ \E bucket \in Buckets :
          agg.result.news_sentiment[bucket] * CountedTotal # 1000 * Counted(bucket)

\* C16 as stated: the overall label is the bucket whose summed count is
\* strictly greater than each of the other two, neutral when none is
C16_StrictlyGreatest ==
    (Finished /\ ~agg.raised) =>
        IF \E bucket \in Buckets :
              \A other \in Buckets \ {bucket} : Counted(bucket) > Counted(other)
        THEN \A other \in Buckets \ {Label} : Counted(Label) > Counted(other)
        ELSE Label = "neutral"

\* C16 amended: the overall label is positive when the summed positive count
\* is strictly greater than the summed negative count, negative when the
\* negative count is strictly greater than the positive one, and neutral when
\* the two are equal, whatever the neutral count
C16_PositiveAgainstNegative ==
    (Finished /\ ~agg.raised) =>
        Label = IF Counted("positive") > Counted("negative") THEN "positive"
                ELSE IF Counted("negative") > Counted("positive") THEN "negative"
                ELSE "neutral"

\* positive articles outnumber negative ones without outnumbering the neutral
C16_Witness ==
    /\ Finished
    /\ ~agg.raised
    /\ Counted("positive") > Counted("negative")
    /\ Counted("neutral") >= Counted("positive")
    /\ Counted("negative") > 0

ReportedSum ==
    agg.result.news_sentiment.positive + agg.result.news_sentiment.negative
    + agg.result.news_sentiment.neutral

\* C17 as stated: the three reported percentages sum to exactly 100 when at
\* least one article was counted, and are all 0 when none was
C17_SumIsHundred ==
    (Finished /\ ~agg.raised) =>
        IF CountedTotal > 0
        THEN ReportedSum = 1000
        ELSE \A bucket \in Buckets : agg.result.news_sentiment[bucket] = 0

\* C17 amended: the three reported percentages, each rounded to one decimal
\* place, sum to 100 to within 0.1 when at least one article was counted, and
\* are all 0 when none was
C17_SumNearHundred ==
    (Finished /\ ~agg.raised) =>
        IF CountedTotal > 0
        THEN ReportedSum \in 999..1001
        ELSE \A bucket \in Buckets : agg.result.news_sentiment[bucket] = 0

\* one article of each bucket was counted: 33.3 + 33.3 + 33.3
C17_Witness ==
    /\ Finished
    /\ ~agg.raised
    /\ \A bucket \in Buckets : Counted(bucket) = 1
    /\ ReportedSum = 999

-----------------------------------------------------------------------------
(* The date window *)

\* the day the window of the call ends on: the Friday before a Saturday or a
\* Sunday, the day itself from Monday to Friday (day 1 is a Monday)
WindowEnd(day) ==
    IF day % 7 = 6 THEN day - 1 ELSE IF day % 7 = 0 THEN day - 2 ELSE day

\* C18: the date window of a call depends on the day of the call alone: on a
\* Saturday or Sunday to_date is the most recent Friday, from Monday to Friday
\* it is the day itself; from_date is 7 days before to_date; to_date is never a
\* Saturday or a Sunday
C18_DateWindow ==
    agg.call.day # 0 =>
        /\ agg.call.to_date = DateStr(WindowEnd(agg.call.day))
        /\ agg.call.from_date = DateStr(WindowEnd(agg.call.day) - 7)
        /\ WindowEnd(agg.call.day) % 7 \notin {6, 0}
        /\ agg.call.is_weekend = (agg.call.day % 7 \in {6, 0})

\* a call made on Sunday 7 January 2024 came back with the window that ends on
\* Friday 5 January
C18_Witness ==
    /\ Finished
    /\ agg.call.day = 7
    /\ agg.call.to_date = "2024-01-05"
    /\ agg.call.from_date = "2023-12-29"

-----------------------------------------------------------------------------
(* Sector performance *)

\* C19: in every snapshot sector_performance has an entry for each of the 11
\* sectors of the sector-to-ETF table, whatever the providers answered; a
\* sector whose ETF data is unavailable has the value 0.0
C19_EverySector ==
    (Finished /\ ~agg.raised) =>
        DOMAIN agg.result.sector_performance
            = {SectorEtfs[i].sector : i \in 1..Len(SectorEtfs)}

-----------------------------------------------------------------------------
(* Technical indicators of a short history *)

\* the histories a symbol can have, up to a few observations past the minimum
HistoryLengths == 0..25

\* what get_stock_data of the technical-indicators agent returns, in the
\* present state, for a history of `len` observations
TechnicalFetch(symbol, len) ==
    TechnicalGetStockData(AgentState("TECHNICAL_INDICATORS"),
                          Config("TECHNICAL_INDICATORS"), symbol, TechnicalHistory(len))

\* the indicator set of a result
IndicatorsIn(result) == DOMAIN result \ {"symbol", "last_updated", "error"}

\* C20 as stated: when the history is obtained and has 0 to 19 observations the
\* fetch returns a non-error result whose indicator set is empty; it returns
\* computed indicators for 20 or more observations only
C20_ShortHistoryNoError ==
    \A symbol \in Symbols, len \in HistoryLengths :
        TechnicalFetch(symbol, len).s.requests # <<>> =>
            IF len < 20
            THEN /\ ~HasKey(TechnicalFetch(symbol, len).result, "error")
                 /\ IndicatorsIn(TechnicalFetch(symbol, len).result) = {}
            ELSE /\ ~HasKey(TechnicalFetch(symbol, len).result, "error")
                 /\ IndicatorsIn(TechnicalFetch(symbol, len).result) # {}

\* C20 amended: when the history is obtained, 1 to 19 observations give a
\* non-error result whose indicator set is empty, an empty history (0
\* observations) gives an error result without indicators, and 20 or more
\* observations give a non-error result with the computed indicators
C20_ShortHistory ==
    \A symbol \in Symbols, len \in HistoryLengths :
        TechnicalFetch(symbol, len).s.requests # <<>> =>
            IF len = 0
            THEN /\ HasKey(TechnicalFetch(symbol, len).result, "error")
                 /\ IndicatorsIn(TechnicalFetch(symbol, len).result) = {}
            ELSE IF len < 20
            THEN /\ ~HasKey(TechnicalFetch(symbol, len).result, "error")
                 /\ IndicatorsIn(TechnicalFetch(symbol, len).result) = {}
            ELSE /\ ~HasKey(TechnicalFetch(symbol, len).result, "error")
                 /\ IndicatorsIn(TechnicalFetch(symbol, len).result) # {}

\* a fetch that obtained a history returned a non-error result without
\* indicators, and the agent's cache now holds a result
C20_Witness ==
    /\ fobs.agent = "TECHNICAL_INDICATORS"
    /\ fobs.op = "get_stock_data"
    /\ fobs.requests # <<>>
    /\ ~HasKey(fobs.result, "error")
    /\ IndicatorsIn(fobs.result) = {}
    /\ cache["TECHNICAL_INDICATORS"] # EmptyDict

-----------------------------------------------------------------------------
(* Waiting for the rate-limit window during a call *)

\* C21: a wait of one provider's rate limiter delays that provider's own
\* request alone: the fetch of every other provider of the call can start and
\* complete meanwhile, so no provider's fetch begins later than the call did
\* because of another provider's wait
C21_WaitIsLocal ==
    \A i \in 1..Len(Sources) :
        HasKey(agg.begun, Sources[i]) => agg.begun[Sources[i]] = agg.started

-----------------------------------------------------------------------------
(* Two callers making rate-limit checks on one provider instance, as two
   aggregation calls on the module's one service do.  _rate_limit_check takes
   no lock; a thread switch is taken between its statements only, the coarsest
   interleaving the interpreter allows. *)

\* RateAgent is constructed with NEWSAPI_RATE_LIMIT=1
InitRace == InitRate /\ rate_limit[RateAgent] = 1

NextRace ==
    \/ Tick
    \/ \E c \in Callers : Call(c, RateAgent)
    \/ \E c \in Callers : L39(c)
    \/ \E c \in Callers : L44(c)
    \/ \E c \in Callers : L47(c)
    \/ \E c \in Callers : L51(c)

SpecRace == InitRace /\ [][NextRace]_vars

\* the checks that returned in the present window, among the latest
\* rate_limit + 1 returns
PassedInWindow ==
    Cardinality({i \in 1..Len(returns) : returns[i] >= request_window_start[RateAgent]})

\* C22: under every interleaving of two concurrent _rate_limit_check
\* executions request_count never exceeds the limit and no more than
\* rate_limit checks return within one window
C22_CheckIsAtomic ==
    /\ request_count[RateAgent] <= rate_limit[RateAgent]
    /\ PassedInWindow <= rate_limit[RateAgent]

-----------------------------------------------------------------------------
(* Rate-limit checks and outbound calls of one aggregation call *)

\* C23: every outbound call made during an aggregation call, by a provider or
\* by the aggregator itself, comes directly after one rate-limit check of the
\* provider instance that makes it
C23_CheckBeforeCall ==
    /\ \A name \in DOMAIN agg.trace :
          \A i \in 1..Len(agg.trace[name]) :
              agg.trace[name][i] = "call" =>
                  i > 1 /\ agg.trace[name][i - 1] = "check"
    /\ agg.lookups = <<>>

-----------------------------------------------------------------------------
(* The date window of the requests of one call *)

\* the date-bounded requests of the call made so far, with the day their
\* range ends on as the request gives it
DateBounded ==
    {[provider |-> "newsapi_us", ends |-> agg.requests.newsapi_us[i].to] :
        i \in 1..Len(Get(agg.requests, "newsapi_us", <<>>))}
    \cup {[provider |-> "finnhub", ends |-> agg.requests.finnhub[i].to] :
            i \in 1..Len(Get(agg.requests, "finnhub", <<>>))}
    \cup {[provider |-> "fred", ends |-> agg.requests.fred[i].observation_end] :
            i \in 1..Len(Get(agg.requests, "fred", <<>>))}

\* C24: every date-bounded request of a call (NewsAPI search, Finnhub company
\* news, FRED observations) ends on the to_date of the window computed for the
\* call, so that on a Saturday or Sunday none ends later than the Friday before
C24_WindowEverywhere ==
    \A request \in DateBounded : request.ends = agg.call.to_date

-----------------------------------------------------------------------------
(* The structuring stage as a transform of the raw results *)

\* the sections of a snapshot, its timestamp left out
SnapshotSections == Sections \cup {"available_sources", "error_sources", "news_data"}

\* C25: the snapshot is determined by (raw_results, symbols) alone, its
\* timestamp apart: whatever the upstream services answer while the stage
\* runs, its sections are the same; and the stage makes no network call
C25_PureTransform ==
    (Finished /\ ~agg.raised) =>
        /\ \A w \in Worlds : \A section \in SnapshotSections :
              StructureMarketData(agg.raw_results, agg.symbols, w.etf, now)[section]
                  = agg.result[section]
        /\ agg.lookups = <<>>

-----------------------------------------------------------------------------
(* What an operation on one provider instance leaves alone *)

\* the provider instance the stage about to run works on
StageAgent ==
    [yfinance |-> "YFINANCE", polygon |-> "POLYGON",
     technical_indicators |-> "TECHNICAL_INDICATORS", newsapi_us |-> "NEWSAPI",
     finnhub |-> "FINNHUB", fred |-> "FRED"]

Acting == IF agg.pc \in DOMAIN StageAgent THEN StageAgent[agg.pc] ELSE NoAgent

\* C26: an operation on one provider instance (a cache hit, a miss with a
\* request, a failed request or a rate-limit wait) leaves the cache,
\* request_count and request_window_start of every other instance unchanged
C26_OthersUntouched ==
    [][\A a \in Agents \ {Acting} :
          /\ cache'[a] = cache[a]
          /\ request_count'[a] = request_count[a]
          /\ request_window_start'[a] = request_window_start[a]]_vars

\* the NewsAPI stage waited for its window and stored what it got, next to the
\* filled cache of YFinance and the untouched state of Finnhub
C26_Witness ==
    /\ agg.pc = "finnhub"
    /\ now > agg.begun.newsapi_us
    /\ cache["NEWSAPI"] # EmptyDict
    /\ request_count["NEWSAPI"] = 1
    /\ request_window_start["NEWSAPI"] = now
    /\ cache["YFINANCE"] # EmptyDict
    /\ cache["FINNHUB"] = EmptyDict
    /\ request_count["FINNHUB"] = 0
    /\ request_window_start["FINNHUB"] = 0

-----------------------------------------------------------------------------
(* The fixed-window budget of one caller *)

\* C27: in single-threaded use with a limit of 1 or more, after every return
\* of _rate_limit_check request_count is at least 1 and at most the limit, and
\* no more than rate_limit checks have returned since request_window_start was
\* last reset
C27_FixedWindowBudget ==
    (obs.agent # NoAgent /\ \A c \in Callers : pc[c] = "idle") =>
        /\ request_count[obs.agent] >= 1
        /\ request_count[obs.agent] <= rate_limit[obs.agent]
        /\ obs.count_after = request_count[obs.agent]
        /\ PassedInWindow <= rate_limit[obs.agent]

\* the budget of a window was used up: the limit is 2, two checks returned in
\* the window, the later one after the window's start
C27_Witness ==
    /\ obs.agent # NoAgent
    /\ \A c \in Callers : pc[c] = "idle"
    /\ rate_limit[obs.agent] = 2
    /\ request_count[obs.agent] = 2
    /\ PassedInWindow = 2
    /\ obs.returned > request_window_start[obs.agent]
    /\ request_window_start[obs.agent] > 0

-----------------------------------------------------------------------------
(* The articles behind the sentiment and the articles listed *)

\* the places of ticker_news that hold an article of the bucket
ListedIn(bucket) ==
    UNION {{<<ticker, k>> : k \in
              {j \in 1..Len(agg.result.ticker_news[ticker]) :
                  Get(agg.result.ticker_news[ticker][j], "sentiment", "neutral") = bucket}} :
           ticker \in DOMAIN agg.result.ticker_news}

IsListed(article) ==
    \E ticker \in DOMAIN agg.result.ticker_news :
        \E k \in 1..Len(agg.result.ticker_news[ticker]) :
            agg.result.ticker_news[ticker][k] = article

\* the collected articles of the bucket that relevance filtering dropped
DroppedIn(bucket) ==
    UNION {{<<name, i>> : i \in
              {j \in 1..Len(CountedArticles(name)) :
                  /\ Get(CountedArticles(name)[j], "sentiment", "neutral") = bucket
                  /\ ~IsListed(CountedArticles(name)[j])}} :
           name \in {"newsapi_us", "finnhub"}}

ListedTotal == Cardinality(UNION {ListedIn(bucket) : bucket \in Buckets})

\* the reported percentage is that of `count` articles among `total`
Reports(bucket, count, total) ==
    IF total = 0 THEN agg.result.news_sentiment[bucket] = 0
    ELSE LET diff == agg.result.news_sentiment[bucket] * total - 1000 * count
         IN  2 * diff <= total /\ -2 * diff <= total

\* C28 as stated: the articles counted in news_sentiment are exactly those of
\* ticker_news: the percentages are those of the listed articles, a dropped
\* article counting in no bucket
C28_SentimentOfListed ==
    (Finished /\ ~agg.raised) =>
        \A bucket \in Buckets :
            Reports(bucket, Cardinality(ListedIn(bucket)), ListedTotal)

\* C28 amended: the articles counted in news_sentiment are the articles the
\* NewsAPI and Finnhub stages collected for the call: every article listed in
\* ticker_news counts in exactly one bucket, and so does every collected
\* article that relevance filtering dropped
C28_SentimentOfCollected ==
    (Finished /\ ~agg.raised) =>
        /\ \A bucket \in Buckets :
              Reports(bucket,
                      Cardinality(ListedIn(bucket)) + Cardinality(DroppedIn(bucket)),
                      ListedTotal
                      + Cardinality(UNION {DroppedIn(other) : other \in Buckets}))
        /\ \A ticker \in DOMAIN agg.result.ticker_news :
              \A k \in 1..Len(agg.result.ticker_news[ticker]) :
                  /\ Get(agg.result.ticker_news[ticker][k], "sentiment", "neutral")
                        \in Buckets
                  /\ \E name \in {"newsapi_us", "finnhub"} :
                        \E i \in 1..Len(CountedArticles(name)) :
                            CountedArticles(name)[i] = agg.result.ticker_news[ticker][k]

\* a positive article is listed and the one negative article counted was
\* dropped by relevance filtering
C28_Witness ==
    /\ Finished
    /\ ~agg.raised
    /\ ListedIn("positive") # {}
    /\ ListedIn("negative") = {}
    /\ DroppedIn("negative") # {}
    /\ agg.result.news_sentiment.negative > 0

-----------------------------------------------------------------------------
(* Completeness of the attribution *)

\* headline + summary, the text of an article of Finnhub
HeadlineOf(article) ==
    Get(article, "headline", "") \o " " \o Get(article, "summary", "")

\* ticker_news lists under `ticker` an article with the title and url of `article`
ListedUnder(ticker, article) ==
    /\ HasKey(agg.result.ticker_news, ticker)
    /\ \E j \in 1..Len(agg.result.ticker_news[ticker]) :
          SameArticle(agg.result.ticker_news[ticker][j], article)

\* the articles of NewsAPI returned for a search of `ticker` that mention a
\* keyword of it and that ticker_news does not list under it
UnlistedNews(ticker) ==
    UNION {{<<i, k>> : k \in {j \in 1..Len(ReturnedFor(i)) :
                                /\ Mentions(ReturnedFor(i)[j], ticker)
                                /\ ~ListedUnder(ticker, ReturnedFor(i)[j])}} :
           i \in {h \in 1..Len(SearchPairs(agg.symbols)) :
                     SearchPairs(agg.symbols)[h].symbol = ticker}}

\* the articles Finnhub returned for their ticker whose headline and summary
\* mention a keyword of it and that ticker_news does not list under it
UnlistedFinnhub ==
    {k \in 1..Len(CountedArticles("finnhub")) :
        LET article == CountedArticles("finnhub")[k]
        IN  /\ \E i \in 1..Len(Keywords(article.related_ticker)) :
                  <<HeadlineOf(article), Keywords(article.related_ticker)[i]>>
                      \in LowerContains
            /\ ~ (/\ HasKey(agg.result.ticker_news, article.related_ticker)
                  /\ \E j \in 1..Len(agg.result.ticker_news[article.related_ticker]) :
                        agg.result.ticker_news[article.related_ticker][j] = article)}

\* C29: every article NewsAPI or Finnhub returned for a requested ticker T
\* whose text mentions a keyword of T is listed in ticker_news[T], also when
\* the article was returned earlier in the call for another requested ticker
C29_AttributionComplete ==
    (Finished /\ ~agg.raised) =>
        /\ \A i \in 1..Len(agg.symbols) : UnlistedNews(agg.symbols[i]) = {}
        /\ UnlistedFinnhub = {}

-----------------------------------------------------------------------------
(* Fetching again within the lifetime of the cache *)

ComparedSections ==
    {"price_data", "ticker_news", "news_sentiment", "economic_indicators",
     "technical_data"}

\* the call that has finished follows a call with the same date window and
\* the same answers of the providers, and ends before an entry written by
\* that call can have expired
Refetched ==
    /\ Finished
    /\ agg.previous # None
    /\ ~agg.raised
    /\ ~agg.previous.raised
    /\ agg.previous.world = world
    /\ agg.previous.call = agg.call
    /\ now - agg.previous.started < CACHE_DURATION

\* the stages whose provider asks upstream through _make_request
Requesting == {"polygon", "newsapi_us", "finnhub", "fred"}

====
